---- MODULE Spec2Model ----
(***************************************************************************)
(* Model of the deadline-aware aggregation scheduler of the 4-class        *)
(* station sender (src/c3_wifi_station/main/station_example_main.c).       *)
(*                                                                         *)
(* Every critical section of the source (the code between xSemaphoreTake   *)
(* and xSemaphoreGive on scheduler_ctx.mutex) is one atomic action; the    *)
(* code between two critical sections that touches task-local data only is *)
(* folded into the critical section that precedes or follows it.  The      *)
(* clock may advance between any two actions.  Heap allocation is taken to *)
(* succeed.  A sample's payload bytes are identified by the sample's id: a *)
(* memcpy of a sample into a buffer is a chunk [id, off, len].             *)
(***************************************************************************)
EXTENDS Integers, Sequences, FiniteSets, TLC

VARIABLES
    clock,                \* xTaskGetTickCount() * portTICK_PERIOD_MS, uint32
    clock_budget,         \* scheduler periods still to elapse
    tick_due,             \* the scheduler's 50 ms period has elapsed
    packet_queues,        \* scheduler_ctx.packet_queues[class]
    class_types,          \* scheduler_ctx.class_types[class]
    class_deadlines,      \* scheduler_ctx.class_deadlines[class]
    processing_threshold, \* scheduler_ctx.processing_threshold
    packets_processed,    \* scheduler_ctx.packets_processed
    packets_transmitted,  \* scheduler_ctx.packets_transmitted
    deadline_misses,      \* scheduler_ctx.deadline_misses
    current_time_ms,      \* scheduler_ctx.current_time_ms
    mutex,                \* the task that holds scheduler_ctx.mutex, or "free"
    app,                  \* position of the main task in the tail of scheduler_init
    packet_counts,        \* config->packet_counts[class], config->random_packet_count
    sched,                \* locals and position of scheduler_task / process_packets
    prod,                 \* locals and position of each producer task in scheduler_submit_packet
    last_frame,           \* history: the frame last handed to esp_wifi_80211_tx
    emitted_upto,         \* history: per class, the highest sample id in any frame so far
    samples_emitted,      \* history: number of samples in the frames handed over so far
    next_id,              \* history: number of samples enqueued so far, plus one
    submit_budget,        \* calls of scheduler_submit_packet still to be made
    msgq,                 \* a packet_queue_t of msgqueue.c and the nodes on the heap
    msgq_call,            \* history: the last call of a msgqueue.c function
    txcall,               \* a call of send_data_packet: its inputs, its buffer, its result
    power,                \* the transmit-power controller: config->wifi_tx_power, the radio, the last evaluation
    burst,                \* random_packet_task: its locals, the clock it reads, and a history
    rx,                   \* the receiver's handling of one data frame: latency, counters, delivery
    ea,                   \* the energy-aware station: its class queues, process_packets, a producer
    live,                 \* the station scheduler with time kept relative to the latest tick
    ap                    \* the access-point sender: producers and one scheduler tick

vars == <<clock, clock_budget, tick_due, packet_queues, class_types, class_deadlines,
          processing_threshold, packets_processed, packets_transmitted,
          deadline_misses, packet_counts, sched, prod, last_frame,
          emitted_upto, samples_emitted, next_id, submit_budget,
          current_time_ms, mutex, app, msgq, msgq_call, txcall, power, burst, rx, ea, live,
          ap>>

history == <<last_frame, emitted_upto, samples_emitted>>

msgqueue == <<msgq, msgq_call>>

\* the components modelled on their own, apart from the station scheduler
\* and the queue of msgqueue.c
parts == <<txcall, power, burst, rx, ea, live, ap>>

\* a component that does not run in the specification at hand
Unused == [pc |-> "unused"]

PartsUnused ==
    /\ txcall = Unused
    /\ power = Unused
    /\ burst = Unused
    /\ rx = Unused
    /\ ea = Unused
    /\ live = Unused
    /\ ap = Unused

ctx_config == <<class_types, class_deadlines, processing_threshold, packet_counts>>
ctx_stats == <<packets_processed, packets_transmitted, deadline_misses, current_time_ms>>

----------------------------------------------------------------------------
(* Program constants *)

MAX_CLASSES == 4
MAX_PACKET_SIZE == 1400
MAX_QUEUE_SIZE == 50
SCHEDULER_CHECK_INTERVAL_MS == 50
MAX_TX_SIZE == 1400
HEADER_SIZE == 24
NEARLY_FULL == 100
UINT32_MAX == -1
INT32_MAX == 2147483647
MIN_THRESHOLD == 100
BOOT_DELAY_MS == 2000
SIZEOF_DATA_TYPE == 4

CLASS_1 == 0
CLASS_2 == 1
CLASS_3 == 2
CLASS_RANDOM == 3

DATA_TYPE_INT8 == 0
DATA_TYPE_INT16 == 1
DATA_TYPE_INT32 == 2
DATA_TYPE_FLOAT == 3
DATA_TYPE_DOUBLE == 4

Classes == 0 .. (MAX_CLASSES - 1)
DataTypes == DATA_TYPE_INT8 .. DATA_TYPE_DOUBLE

(* terminal_cmd.h: adaptive transmit power *)
RSSI_EXCELLENT == -5
RSSI_GOOD == -20
RSSI_FAIR == -89
TX_POWER_MIN == 8
TX_POWER_LOW == 44
TX_POWER_MEDIUM == 60
TX_POWER_HIGH == 80
DEFAULT_WIFI_TX_POWER == 80

(* the energy-aware station *)
EA_MAX_CLASSES == 3
CLASS_DDL_1 == 6000
CLASS_DDL_2 == 10000
DDL_GAP == 100

(* the access-point sender: the classes and their relative deadlines *)
AP_MAX_CLASSES == 3
AP_DDL_1 == 3000
AP_DDL_2 == 5000
AP_DDL_3 == 6000

(* the receiver: the largest latency taken for a real one *)
LATENCY_SANITY_MAX == 30000

(* random_packet_task: burst_duration and the delay of a round *)
BURST_DURATION == 5000
POLL_MS == 10

(* Bounds of the model *)
MaxSubmits == 2
MaxClockSteps == 2
MaxQueueOps == 4
MaxEvals == 2
MaxRounds == 1100
MaxFrames == 2
MaxTicks == 2
MaxEaSubmits == 2
MaxApSubmits == 2
LargeCount == 200

----------------------------------------------------------------------------
(* Fixed-width arithmetic *)

U8(x) == x % 256
U16(x) == x % 65536

(* A uint32_t is held as the 32-bit two's complement integer with the same  *)
(* bits: 0 .. 2^31-1 stand for themselves and 2^32-k is -k, so UINT32_MAX   *)
(* is -1 and the wrap from 2^32-1 to 0 is the step from -1 to 0.            *)

\* a + b on uint32_t
Add32(a, b) ==
    IF a > 0 /\ b > 0 /\ a > INT32_MAX - b
    THEN (a - INT32_MAX - 1) + (b - INT32_MAX - 1)
    ELSE IF a < 0 /\ b < 0 /\ a < (-INT32_MAX - 1) - b
    THEN (a + INT32_MAX + 1) + (b + INT32_MAX + 1)
    ELSE a + b

\* a < b on uint32_t
Lt32(a, b) == IF (a >= 0) = (b >= 0) THEN a < b ELSE a >= 0

\* a > b on uint32_t
Gt32(a, b) == Lt32(b, a)

\* sizeof(data_packet_header_t): packed, the enum fields keep the width of int
SizeofHeader == MAX_CLASSES + MAX_CLASSES * SIZEOF_DATA_TYPE + 2 + 4

\* get_current_time_ms()
get_current_time_ms == clock

----------------------------------------------------------------------------
(* Queue functions: a queue is the sequence of the packets of its nodes,   *)
(* head first; count is its length.                                        *)

NoPacket == [id |-> 0, class_id |-> 0, deadline |-> 0, data_type |-> 0,
             data_count |-> 0, size |-> 0]

queue_init == <<>>

\* queue_enqueue whose capacity test is count > MAX_QUEUE_SIZE
queue_enqueue_gt(queue, packet) ==
    IF Len(queue) > MAX_QUEUE_SIZE
    THEN [ok |-> FALSE, queue |-> queue]
    ELSE [ok |-> TRUE, queue |-> Append(queue, packet)]

\* queue_enqueue: [ok, queue]
queue_enqueue(queue, packet) ==
    IF Len(queue) >= MAX_QUEUE_SIZE
    THEN [ok |-> FALSE, queue |-> queue]
    ELSE [ok |-> TRUE, queue |-> Append(queue, packet)]

\* queue_dequeue that unlinks the tail node instead of the head node
queue_dequeue_lifo(queue) ==
    IF Len(queue) = 0
    THEN [ok |-> FALSE, packet |-> NoPacket, queue |-> queue]
    ELSE [ok |-> TRUE, packet |-> queue[Len(queue)],
          queue |-> SubSeq(queue, 1, Len(queue) - 1)]

\* queue_dequeue that unlinks the head node and the node behind it
queue_dequeue_two(queue) ==
    IF Len(queue) = 0
    THEN [ok |-> FALSE, packet |-> NoPacket, queue |-> queue]
    ELSE [ok |-> TRUE, packet |-> Head(queue),
          queue |-> IF Len(queue) = 1 THEN <<>> ELSE Tail(Tail(queue))]

\* queue_dequeue: [ok, packet, queue]
queue_dequeue(queue) ==
    IF Len(queue) = 0
    THEN [ok |-> FALSE, packet |-> NoPacket, queue |-> queue]
    ELSE [ok |-> TRUE, packet |-> Head(queue), queue |-> Tail(queue)]

\* queue_peek: [ok, packet]
queue_peek(queue) ==
    IF Len(queue) = 0
    THEN [ok |-> FALSE, packet |-> NoPacket]
    ELSE [ok |-> TRUE, packet |-> Head(queue)]

----------------------------------------------------------------------------
(* The queue functions of src/energy_aware_sched_station_1/main/msgqueue.c: *)
(* a packet_queue_t is head, tail and count; mem is the heap, one           *)
(* queue_node_t per address; a packet is identified by a number.            *)

NULL == 0
Nodes == 1 .. MAX_QUEUE_SIZE + 1

\* a node that is not allocated
FreeNode == [used |-> FALSE, packet |-> 0, next |-> NULL]

\* malloc(sizeof(queue_node_t)) when it succeeds: the lowest free address
Malloc(mem) ==
    IF \A n \in Nodes : mem[n].used THEN NULL
    ELSE CHOOSE n \in Nodes : ~mem[n].used /\ \A m \in Nodes : m < n => mem[m].used

\* queue_init
msgqueue_init == [head |-> NULL, tail |-> NULL, count |-> 0,
                  mem |-> [n \in Nodes |-> FreeNode]]

\* the capacity test with > for >=
QueueIsFullGt(count) == count > MAX_QUEUE_SIZE

\* if (queue->count >= MAX_QUEUE_SIZE) return false
QueueIsFull(count) == count >= MAX_QUEUE_SIZE

\* queue_enqueue, new_node being the result of malloc
msgqueue_enqueue(queue, packet, new_node) ==
    IF QueueIsFull(queue.count) \/ new_node = NULL
    THEN [queue |-> queue, ret |-> FALSE]
    ELSE LET mem1 == [queue.mem EXCEPT ![new_node] =
                         [used |-> TRUE, packet |-> packet, next |-> NULL]]
         IN  [queue |-> IF queue.count = 0
                        THEN [head |-> new_node, tail |-> new_node,
                              count |-> queue.count + 1, mem |-> mem1]
                        ELSE [head |-> queue.head, tail |-> new_node,
                              count |-> queue.count + 1,
                              mem |-> [mem1 EXCEPT ![queue.tail].next = new_node]],
              ret |-> TRUE]

\* queue_enqueue_front linking the new node behind the tail
msgqueue_enqueue_front_at_tail(queue, packet, new_node) ==
    msgqueue_enqueue(queue, packet, new_node)

\* queue_enqueue_front, new_node being the result of malloc
msgqueue_enqueue_front(queue, packet, new_node) ==
    IF QueueIsFull(queue.count) \/ new_node = NULL
    THEN [queue |-> queue, ret |-> FALSE]
    ELSE IF queue.count = 0
         THEN [queue |-> [head |-> new_node, tail |-> new_node,
                          count |-> queue.count + 1,
                          mem |-> [queue.mem EXCEPT ![new_node] =
                                     [used |-> TRUE, packet |-> packet, next |-> NULL]]],
               ret |-> TRUE]
         ELSE [queue |-> [head |-> new_node, tail |-> queue.tail,
                          count |-> queue.count + 1,
                          mem |-> [queue.mem EXCEPT ![new_node] =
                                     [used |-> TRUE, packet |-> packet,
                                      next |-> queue.head]]],
               ret |-> TRUE]

\* queue_dequeue without the reset of tail when the queue becomes empty
msgqueue_dequeue_keeps_tail(queue) ==
    IF queue.count = 0
    THEN [queue |-> queue, ret |-> FALSE, packet |-> 0]
    ELSE LET node == queue.head
         IN  [queue |-> [head |-> queue.mem[node].next,
                         tail |-> queue.tail,
                         count |-> queue.count - 1,
                         mem |-> [queue.mem EXCEPT ![node] = FreeNode]],
              ret |-> TRUE,
              packet |-> queue.mem[node].packet]

\* queue_dequeue; packet is the caller's buffer, 0 when it was not written
msgqueue_dequeue(queue) ==
    IF queue.count = 0
    THEN [queue |-> queue, ret |-> FALSE, packet |-> 0]
    ELSE LET node == queue.head
         IN  [queue |-> [head |-> queue.mem[node].next,
                         tail |-> IF queue.count - 1 = 0 THEN NULL ELSE queue.tail,
                         count |-> queue.count - 1,
                         mem |-> [queue.mem EXCEPT ![node] = FreeNode]],
              ret |-> TRUE,
              packet |-> queue.mem[node].packet]

\* queue_peek
msgqueue_peek(queue) ==
    IF queue.count = 0
    THEN [queue |-> queue, ret |-> FALSE, packet |-> 0]
    ELSE [queue |-> queue, ret |-> TRUE, packet |-> queue.mem[queue.head].packet]

\* the packets of the nodes reached from node by next, at most fuel of them
RECURSIVE ListFrom(_, _, _)
ListFrom(mem, node, fuel) ==
    IF node = NULL \/ fuel = 0 THEN <<>>
    ELSE <<mem[node].packet>> \o ListFrom(mem, mem[node].next, fuel - 1)

\* the packets of a queue, head first
Content(queue) == ListFrom(queue.mem, queue.head, MAX_QUEUE_SIZE + 2)

\* no function of msgqueue.c was called yet
NoCall == [op |-> "none", arg |-> 0, ret |-> FALSE, out |-> 0, before |-> <<>>,
           prev_op |-> "none", prev_ret |-> FALSE, calls |-> 0]

\* a queue after queue_init on which nothing is called
QueueUnused == msgq = msgqueue_init /\ msgq_call = NoCall

----------------------------------------------------------------------------
(* scheduler_submit_packet *)

\* the switch on data_type; element_size stays 0 for any other value
ElementSize(data_type) ==
    CASE data_type = DATA_TYPE_INT8 -> 1
      [] data_type = DATA_TYPE_INT16 -> 2
      [] data_type = DATA_TYPE_INT32 -> 4
      [] data_type = DATA_TYPE_FLOAT -> 4
      [] data_type = DATA_TYPE_DOUBLE -> 8
      [] OTHER -> 0

\* uint16_t total_size = element_size * count
TotalSize(data_type, count) == U16(ElementSize(data_type) * count)

\* if (total_size > MAX_PACKET_SIZE) return ESP_ERR_INVALID_ARG
TooLarge(total_size) == total_size > MAX_PACKET_SIZE

\* packet.deadline = current_time + scheduler_ctx.class_deadlines[class_id]
DeadlineFor(current_time, class_id) == Add32(current_time, class_deadlines[class_id])

Producers == {"creator", "random"}

\* the classes each producer task submits to
ProducerClasses(p) ==
    IF p = "creator" THEN {CLASS_1, CLASS_2, CLASS_3} ELSE {CLASS_RANDOM}

\* a producer outside scheduler_submit_packet; ret is what its last call
\* returned, class_id and count the arguments of a call that was rejected
ProdIdle == [pc |-> "idle", class_id |-> 0, count |-> 0, packet |-> NoPacket,
             ret |-> "none"]

\* Lines 400-443: validate, size the sample, stamp its deadline; no mutex held.
SubmitPrepare(p, class_id, count) ==
    /\ prod[p].pc = "idle"
    /\ submit_budget > 0
    /\ submit_budget' = submit_budget - 1
    /\ LET data_type == class_types[class_id]
           total_size == TotalSize(data_type, count)
       IN  prod' = [prod EXCEPT ![p] =
             IF TooLarge(total_size)
             THEN [ProdIdle EXCEPT !.ret = "ESP_ERR_INVALID_ARG",
                                   !.class_id = class_id, !.count = count]
             ELSE [pc |-> "enqueue", class_id |-> class_id, count |-> count,
                   packet |-> [id |-> 0, class_id |-> class_id,
                               deadline |-> DeadlineFor(get_current_time_ms, class_id),
                               data_type |-> data_type, data_count |-> count,
                               size |-> total_size],
                   ret |-> "pending"]]
    /\ UNCHANGED <<clock, clock_budget, tick_due, packet_queues, ctx_config, ctx_stats, sched,
                   history, next_id>>

\* Lines 445-458: the critical section that enqueues, and the return value.
SubmitEnqueue(p) ==
    /\ prod[p].pc = "enqueue"
    /\ LET class_id == prod[p].class_id
           packet == [prod[p].packet EXCEPT !.id = next_id]
           r == queue_enqueue(packet_queues[class_id], packet)
       IN  /\ packet_queues' = [packet_queues EXCEPT ![class_id] = r.queue]
           /\ next_id' = IF r.ok THEN next_id + 1 ELSE next_id
           /\ prod' = [prod EXCEPT ![p] =
                        [ProdIdle EXCEPT !.ret = IF r.ok THEN "ESP_OK" ELSE "ESP_FAIL"]]
    /\ UNCHANGED <<clock, clock_budget, tick_due, ctx_config, ctx_stats, sched, history,
                   submit_budget>>

----------------------------------------------------------------------------
(* scheduler_task / process_packets / send_data_packet *)

NoCounts == [c \in Classes |-> 0]

NoHeader == [class_counts |-> NoCounts, class_types |-> NoCounts,
             total_size |-> 0, timestamp |-> 0]

SchedIdle == [pc |-> "idle", current_time |-> 0, earliest_deadline |-> UINT32_MAX,
              class_id |-> 0, data_buffer |-> <<>>, data_ptr |-> 0,
              remaining_space |-> MAX_TX_SIZE, class_counts |-> NoCounts,
              header |-> NoHeader, packet_size |-> 0, missed |-> {},
              iterations |-> 0]

\* no frame has been handed to the radio in this tick
NoFrame == [sent |-> FALSE, now |-> 0, header |-> NoHeader, packet_size |-> 0,
            payload |-> <<>>, ret_ok |-> FALSE, counted |-> FALSE,
            prev_upto |-> NoCounts]

\* the largest of a set of sample ids
MaxId(ids) == CHOOSE m \in ids : \A n \in ids : n <= m

\* the for loop of find_earliest_deadline, from class_id on
RECURSIVE EarliestFrom(_, _, _)
EarliestFrom(queues, class_id, earliest_deadline) ==
    IF class_id >= MAX_CLASSES
    THEN earliest_deadline
    ELSE LET queue == queues[class_id]
         IN  EarliestFrom(queues, class_id + 1,
                 IF Len(queue) # 0 /\ Lt32(Head(queue).deadline, earliest_deadline)
                 THEN Head(queue).deadline
                 ELSE earliest_deadline)

find_earliest_deadline == EarliestFrom(packet_queues, 0, UINT32_MAX)

\* the early return of line 477 never taken
DeadlineApproachingAnyPacket(earliest_deadline, current_time) ==
    earliest_deadline # UINT32_MAX

\* the early return of line 477 taken also when the deadline is exactly
\* current_time + processing_threshold
DeadlineApproachingStrict(earliest_deadline, current_time) ==
    /\ earliest_deadline # UINT32_MAX
    /\ Lt32(earliest_deadline, Add32(current_time, processing_threshold))

\* the two early returns of process_packets (lines 471 and 477) are not taken
DeadlineApproaching(earliest_deadline, current_time) ==
    /\ earliest_deadline # UINT32_MAX
    /\ ~Gt32(earliest_deadline, Add32(current_time, processing_threshold))

\* the miss test with >= for >
DeadlineMissedGe(current_time, packet) == ~Lt32(current_time, packet.deadline)

\* if (current_time > packet.deadline)
DeadlineMissed(current_time, packet) == Gt32(current_time, packet.deadline)

\* a fit test that lets every sample through
DoesNotFitNever(packet, remaining_space) == FALSE

\* if (packet.size > remaining_space) break
DoesNotFit(packet, remaining_space) == packet.size > remaining_space

\* the loop without the nearly-full break
NearlyFullNever(remaining_space) == FALSE

\* if (remaining_space < 100) break
NearlyFull(remaining_space) == remaining_space < NEARLY_FULL

\* class_counts[class_id]++ in place of += packet.data_count
AddOne(class_count, packet) == U8(class_count + 1)

\* class_counts[class_id] += packet.data_count, on a uint8_t
AddCount(class_count, packet) == U8(class_count + packet.data_count)

\* the memcpy with data_buffer for data_ptr as its destination
ChunkAtStart(packet, data_ptr) ==
    [id |-> packet.id, class_id |-> packet.class_id, deadline |-> packet.deadline,
     data_count |-> packet.data_count, off |-> 0, len |-> packet.size]

\* memcpy(data_ptr, packet.data, packet.size)
Chunk(packet, data_ptr) ==
    [id |-> packet.id, class_id |-> packet.class_id, deadline |-> packet.deadline,
     data_count |-> packet.data_count, off |-> data_ptr, len |-> packet.size]

\* the miss branch without packets_processed++
SkipMissedUncounted(st, packet, current_time) ==
    [st EXCEPT !.deadline_misses = Add32(@, 1),
               !.missed = @ \cup {[id |-> packet.id, deadline |-> packet.deadline,
                                   now |-> current_time]}]

\* Lines 519-530 on the loop state st: the dequeued packet missed its deadline.
\* st.missed is the history of the samples this tick discarded.
SkipMissed(st, packet, current_time) ==
    [st EXCEPT !.deadline_misses = Add32(@, 1),
               !.packets_processed = Add32(@, 1),
               !.missed = @ \cup {[id |-> packet.id, deadline |-> packet.deadline,
                                   now |-> current_time]}]

\* Lines 532-545 on the loop state st: the dequeued packet is copied to the buffer.
CopyPacket(st, packet) ==
    [st EXCEPT !.data_buffer = Append(@, Chunk(packet, st.data_ptr)),
               !.data_ptr = @ + packet.size,
               !.remaining_space = U16(@ - packet.size),
               !.class_count = AddCount(@, packet),
               !.packets_processed = Add32(@, 1)]

\* The while loop of lines 508-551 for one class, on
\* st = [queue, data_buffer, data_ptr, remaining_space, class_count,
\*       packets_processed, deadline_misses, missed, iterations]
\* st.iterations is the history of how often the loop body was entered.
RECURSIVE ProcessClass(_, _)
ProcessClass(st, current_time) ==
    LET pk == queue_peek(st.queue)
        st0 == [st EXCEPT !.iterations = @ + 1]
    IN  IF ~pk.ok THEN st
        ELSE IF DoesNotFit(pk.packet, st.remaining_space) THEN st0
        ELSE LET dq == queue_dequeue(st.queue)
                 st1 == [st0 EXCEPT !.queue = dq.queue]
             IN  IF DeadlineMissed(current_time, dq.packet)
                 THEN ProcessClass(SkipMissed(st1, dq.packet, current_time), current_time)
                 ELSE LET st2 == CopyPacket(st1, dq.packet)
                      IN  IF NearlyFull(st2.remaining_space) THEN st2
                          ELSE ProcessClass(st2, current_time)

\* Lines 464-465: the tick reads the clock once and stores it in the context.
TickStart ==
    /\ sched.pc = "idle"
    /\ tick_due
    /\ tick_due' = FALSE
    /\ sched' = [SchedIdle EXCEPT !.pc = "find", !.current_time = get_current_time_ms]
    /\ current_time_ms' = get_current_time_ms
    /\ last_frame' = NoFrame
    /\ UNCHANGED <<clock, clock_budget, packet_queues, ctx_config, packets_processed,
                   packets_transmitted, deadline_misses, prod,
                   emitted_upto, samples_emitted, next_id, submit_budget>>

\* Lines 468-497: find_earliest_deadline under the mutex, then the two
\* early returns, then the buffer set-up.
FindEarliest ==
    /\ sched.pc = "find"
    /\ LET earliest_deadline == find_earliest_deadline
       IN  sched' = IF DeadlineApproaching(earliest_deadline, sched.current_time)
                    THEN [sched EXCEPT !.earliest_deadline = earliest_deadline,
                                       !.pc = "assemble"]
                    ELSE SchedIdle
    /\ UNCHANGED <<clock, clock_budget, tick_due, packet_queues, ctx_config, ctx_stats, prod, history,
                   next_id, submit_budget>>

\* Lines 501-555: one iteration of the for loop, the critical section of
\* class sched.class_id.
AssembleClass ==
    /\ sched.pc = "assemble"
    /\ LET class_id == sched.class_id
           st == ProcessClass(
                   [queue |-> packet_queues[class_id],
                    data_buffer |-> sched.data_buffer,
                    data_ptr |-> sched.data_ptr,
                    remaining_space |-> sched.remaining_space,
                    class_count |-> sched.class_counts[class_id],
                    packets_processed |-> packets_processed,
                    deadline_misses |-> deadline_misses,
                    missed |-> sched.missed,
                    iterations |-> 0],
                   sched.current_time)
       IN  /\ packet_queues' = [packet_queues EXCEPT ![class_id] = st.queue]
           /\ packets_processed' = st.packets_processed
           /\ deadline_misses' = st.deadline_misses
           /\ sched' = [sched EXCEPT
                          !.data_buffer = st.data_buffer,
                          !.data_ptr = st.data_ptr,
                          !.remaining_space = st.remaining_space,
                          !.class_counts[class_id] = st.class_count,
                          !.missed = st.missed,
                          !.iterations = st.iterations,
                          !.class_id = class_id + 1,
                          !.pc = IF class_id + 1 < MAX_CLASSES THEN "assemble" ELSE "send"]
    /\ UNCHANGED <<clock, clock_budget, tick_due, ctx_config, packets_transmitted, prod, history,
                   next_id, submit_budget, current_time_ms>>

\* uint16_t actual_data_size = MAX_TX_SIZE - remaining_space
ActualDataSize == U16(MAX_TX_SIZE - sched.remaining_space)

\* the send without the test of actual_data_size
HasDataAlways(actual_data_size) == TRUE

\* if (actual_data_size > 0)
HasData(actual_data_size) == actual_data_size > 0

\* if (size > MAX_TX_SIZE) size = MAX_TX_SIZE
SendSize(size) == IF size > MAX_TX_SIZE THEN MAX_TX_SIZE ELSE size

\* size_t packet_size = HEADER_SIZE + sizeof(data_packet_header_t) + size
PacketSize(size) == HEADER_SIZE + SizeofHeader + size

\* the first size bytes of the data buffer
Payload(data_buffer, size) ==
    SelectSeq(data_buffer, LAMBDA ch : ch.off + ch.len <= size)

\* Lines 558-567 and 590-670: send_data_packet up to the radio write; the
\* header takes its timestamp from the clock and the class types from the context.
SendDataPacket ==
    /\ sched.pc = "send"
    /\ HasData(ActualDataSize)
    /\ LET size == SendSize(ActualDataSize)
       IN  sched' = [sched EXCEPT
                       !.pc = "tx",
                       !.header = [class_counts |-> sched.class_counts,
                                   class_types |-> class_types,
                                   total_size |-> size,
                                   timestamp |-> get_current_time_ms],
                       !.packet_size = PacketSize(size)]
    /\ UNCHANGED <<clock, clock_budget, tick_due, packet_queues, ctx_config, ctx_stats, prod, history,
                   next_id, submit_budget>>

\* Lines 581-586: nothing was copied, nothing is sent.
NoDataToTransmit ==
    /\ sched.pc = "send"
    /\ ~HasData(ActualDataSize)
    /\ sched' = SchedIdle
    /\ UNCHANGED <<clock, clock_budget, tick_due, packet_queues, ctx_config, ctx_stats, prod, history,
                   next_id, submit_budget>>

\* process_packets without the test of ret
AfterSendUnchecked(ret_ok) == "count"

\* where process_packets goes after send_data_packet returned ret
AfterSend(ret_ok) == IF ret_ok THEN "count" ELSE "idle"

\* Lines 674-694: esp_wifi_80211_tx, which succeeds or fails.
Transmit(ret_ok) ==
    /\ sched.pc = "tx"
    /\ LET payload == Payload(sched.data_buffer, sched.header.total_size)
       IN  /\ last_frame' = [sent |-> TRUE,
                             now |-> sched.current_time,
                             header |-> sched.header,
                             packet_size |-> sched.packet_size,
                             payload |-> payload,
                             ret_ok |-> ret_ok,
                             counted |-> FALSE,
                             prev_upto |-> emitted_upto]
           /\ emitted_upto' = [c \in Classes |->
                                 MaxId({emitted_upto[c]} \cup
                                       {payload[i].id : i \in {j \in DOMAIN payload :
                                                                payload[j].class_id = c}})]
           /\ samples_emitted' = samples_emitted + Len(payload)
    /\ sched' = IF AfterSend(ret_ok) = "idle" THEN SchedIdle
                ELSE [sched EXCEPT !.pc = AfterSend(ret_ok)]
    /\ UNCHANGED <<clock, clock_budget, tick_due, packet_queues, ctx_config, ctx_stats, prod,
                   next_id, submit_budget>>

\* the sum of lines 574-577
ClassesSent(class_counts) ==
    (IF class_counts[0] > 0 THEN 1 ELSE 0) + (IF class_counts[1] > 0 THEN 1 ELSE 0)
    + (IF class_counts[2] > 0 THEN 1 ELSE 0) + (IF class_counts[3] > 0 THEN 1 ELSE 0)

\* Lines 570-580: the critical section that counts the transmitted classes.
CountTransmitted ==
    /\ sched.pc = "count"
    /\ packets_transmitted' = Add32(packets_transmitted, ClassesSent(sched.class_counts))
    /\ last_frame' = [last_frame EXCEPT !.counted = TRUE]
    /\ sched' = SchedIdle
    /\ UNCHANGED <<clock, clock_budget, tick_due, packet_queues, ctx_config, packets_processed,
                   deadline_misses, prod, emitted_upto, samples_emitted, next_id,
                   submit_budget, current_time_ms>>

----------------------------------------------------------------------------
(* Time *)

\* The tick count advances by one scheduler period; the scheduler's
\* vTaskDelayUntil expires.
AdvanceClock ==
    /\ clock_budget > 0
    /\ clock_budget' = clock_budget - 1
    /\ clock' = Add32(clock, SCHEDULER_CHECK_INTERVAL_MS)
    /\ tick_due' = TRUE
    /\ UNCHANGED <<packet_queues, ctx_config, ctx_stats, sched, prod, history,
                   next_id, submit_budget>>

----------------------------------------------------------------------------
(* Configurations the terminal can produce *)

Configs ==
    { [class_types |-> <<DATA_TYPE_INT32, DATA_TYPE_FLOAT, DATA_TYPE_INT16, DATA_TYPE_INT32>>,
       packet_counts |-> <<10, 8, 12, 10>>],
      [class_types |-> <<DATA_TYPE_DOUBLE, DATA_TYPE_DOUBLE, DATA_TYPE_INT8, DATA_TYPE_INT8>>,
       packet_counts |-> <<100, 70, 100, 200>>] }

Deadlines == <<100, 150, 200, 50>>

\* a C array indexed from 0, from a tuple
Arr(t) == [c \in Classes |-> t[c + 1]]

\* scheduler_init, lines 981-1010, on configuration cfg
InitWith(cfg) ==
    /\ clock = BOOT_DELAY_MS
    /\ tick_due = TRUE
    /\ packet_queues = [c \in Classes |-> queue_init]
    /\ class_types = Arr(cfg.class_types)
    /\ class_deadlines = Arr(Deadlines)
    /\ processing_threshold = MIN_THRESHOLD
    /\ packet_counts = Arr(cfg.packet_counts)
    /\ packets_processed = 0
    /\ packets_transmitted = 0
    /\ deadline_misses = 0
    /\ current_time_ms = 0
    /\ sched = SchedIdle
    /\ prod = [p \in Producers |-> ProdIdle]
    /\ last_frame = NoFrame
    /\ emitted_upto = NoCounts
    /\ samples_emitted = 0
    /\ next_id = 1

\* scheduler_init has returned
AppDone == [pc |-> "done", random_packet_type |-> 0]

\* every task takes the mutex, runs its critical section and gives the mutex
\* back in one step: the mutex is free in every state
Atomic(A) == A /\ UNCHANGED <<mutex, app, msgqueue, parts>>

Init ==
    /\ \E cfg \in Configs : InitWith(cfg)
    /\ submit_budget = MaxSubmits
    /\ clock_budget = MaxClockSteps
    /\ mutex = "free"
    /\ app = AppDone
    /\ QueueUnused
    /\ PartsUnused

\* packet_creator_task and random_packet_task call create_test_packet with the
\* configured count of the class
Submit ==
    \E p \in Producers : \E class_id \in ProducerClasses(p) :
        SubmitPrepare(p, class_id, packet_counts[class_id])

Enqueue == \E p \in Producers : SubmitEnqueue(p)

TransmitAny == \E ret_ok \in BOOLEAN : Transmit(ret_ok)

Next ==
    \/ Atomic(Submit)
    \/ Atomic(Enqueue)
    \/ Atomic(TickStart)
    \/ Atomic(FindEarliest)
    \/ Atomic(AssembleClass)
    \/ Atomic(SendDataPacket)
    \/ Atomic(NoDataToTransmit)
    \/ Atomic(TransmitAny)
    \/ Atomic(CountTransmitted)
    \/ Atomic(AdvanceClock)

Spec == Init /\ [][Next]_vars

----------------------------------------------------------------------------
(* The station with one class queue at or one below its capacity: the      *)
(* creator task submitted a class-1 sample of 10 values of int32           *)
(* k times at boot, and one class-1 relative deadline has elapsed since.   *)

Backlog(k) ==
    [i \in 1 .. k |->
        [id |-> i, class_id |-> CLASS_1,
         deadline |-> Add32(BOOT_DELAY_MS, Deadlines[CLASS_1 + 1]),
         data_type |-> DATA_TYPE_INT32, data_count |-> 10,
         size |-> TotalSize(DATA_TYPE_INT32, 10)]]

InitFull ==
    /\ \E k \in {MAX_QUEUE_SIZE - 1, MAX_QUEUE_SIZE} :
          /\ packet_queues = [c \in Classes |->
                                IF c = CLASS_1 THEN Backlog(k) ELSE queue_init]
          /\ next_id = k + 1
    /\ clock = Add32(BOOT_DELAY_MS, Deadlines[CLASS_1 + 1])
    /\ tick_due = TRUE
    /\ class_types = Arr(<<DATA_TYPE_INT32, DATA_TYPE_FLOAT, DATA_TYPE_INT16, DATA_TYPE_INT32>>)
    /\ class_deadlines = Arr(Deadlines)
    /\ processing_threshold = MIN_THRESHOLD
    /\ packet_counts = Arr(<<10, 8, 12, 10>>)
    /\ packets_processed = 0
    /\ packets_transmitted = 0
    /\ deadline_misses = 0
    /\ current_time_ms = 0
    /\ sched = SchedIdle
    /\ prod = [p \in Producers |-> ProdIdle]
    /\ last_frame = NoFrame
    /\ emitted_upto = NoCounts
    /\ samples_emitted = 0
    /\ submit_budget = MaxSubmits
    /\ clock_budget = MaxClockSteps
    /\ mutex = "free"
    /\ app = AppDone
    /\ QueueUnused
    /\ PartsUnused

\* the creator task submits to the backlogged class
SubmitBacklogged == SubmitPrepare("creator", CLASS_1, packet_counts[CLASS_1])

NextFull ==
    \/ Atomic(SubmitBacklogged)
    \/ Atomic(Enqueue)
    \/ Atomic(TickStart)
    \/ Atomic(FindEarliest)
    \/ Atomic(AssembleClass)
    \/ Atomic(SendDataPacket)
    \/ Atomic(NoDataToTransmit)
    \/ Atomic(TransmitAny)
    \/ Atomic(CountTransmitted)
    \/ Atomic(AdvanceClock)

SpecFull == InitFull /\ [][NextFull]_vars

----------------------------------------------------------------------------
(* One call of scheduler_submit_packet, for every data type of the class   *)
(* and every value of its uint16_t count argument.                         *)

Counts16 == 0 .. 65535

InitSubmit ==
    /\ \E data_type \in DataTypes :
          InitWith([class_types |-> <<data_type, data_type, data_type, data_type>>,
                    packet_counts |-> <<10, 8, 12, 10>>])
    /\ submit_budget = 1
    /\ clock_budget = 0
    /\ mutex = "free"
    /\ app = AppDone
    /\ QueueUnused
    /\ PartsUnused

SubmitAnyCount ==
    /\ submit_budget > 0
    /\ \E count \in Counts16 : SubmitPrepare("creator", CLASS_1, count)

NextSubmit ==
    \/ Atomic(SubmitAnyCount)
    \/ Atomic(Enqueue)

SpecSubmit == InitSubmit /\ [][NextSubmit]_vars

----------------------------------------------------------------------------
(* The station with the mutex explicit: a task takes scheduler_ctx.mutex   *)
(* in one step and runs its critical section and gives the mutex back in a *)
(* later one.  The main task is still in scheduler_init, after the         *)
(* creation of the creator and scheduler tasks (lines 1025-1047) and       *)
(* before the write of line 1080 and the creation of the random task.      *)

\* a give that leaves the mutex with the task
xSemaphoreGiveNot(task) == task

\* xSemaphoreGive(scheduler_ctx.mutex) by task: the holder of the mutex after it
xSemaphoreGive(task) == "free"

\* the scheduler task taking the mutex also before the radio write
SchedulerAtTakeBeforeTx ==
    \/ sched.pc \in {"find", "assemble", "count", "tx"}
    \/ sched.pc = "send" /\ HasData(ActualDataSize)

\* the scheduler task is at an xSemaphoreTake
SchedulerAtTake ==
    \/ sched.pc \in {"find", "assemble", "count"}
    \/ sched.pc = "send" /\ HasData(ActualDataSize)

\* xSemaphoreTake(scheduler_ctx.mutex, portMAX_DELAY) by the scheduler task
SchedulerTake ==
    /\ SchedulerAtTake
    /\ mutex = "free"
    /\ mutex' = "scheduler"
    /\ UNCHANGED <<clock, clock_budget, tick_due, packet_queues, ctx_config, ctx_stats,
                   sched, prod, history, next_id, submit_budget, app, msgqueue, parts>>

\* xSemaphoreTake(scheduler_ctx.mutex, portMAX_DELAY) by a producer, line 446
ProducerTake ==
    \E p \in Producers :
        /\ prod[p].pc = "enqueue"
        /\ mutex = "free"
        /\ mutex' = p
        /\ UNCHANGED <<clock, clock_budget, tick_due, packet_queues, ctx_config, ctx_stats,
                       sched, prod, history, next_id, submit_budget, app, msgqueue, parts>>

\* the critical section A of task, entered with the mutex held, ending with
\* xSemaphoreGive
Locked(task, A) ==
    /\ mutex = task
    /\ A
    /\ mutex' = xSemaphoreGive(task)
    /\ UNCHANGED <<app, msgqueue, parts>>

\* code A of a task that takes no mutex
Outside(A) == A /\ UNCHANGED <<mutex, app, msgqueue, parts>>

\* Line 1080 of scheduler_init: the type of the random class, written by the
\* main task without the mutex
InitRandomType ==
    /\ app.pc = "random_type"
    /\ class_types' = [class_types EXCEPT ![CLASS_RANDOM] = app.random_packet_type]
    /\ app' = AppDone
    /\ UNCHANGED <<clock, clock_budget, tick_due, packet_queues, class_deadlines,
                   processing_threshold, packet_counts, ctx_stats, sched, prod,
                   history, next_id, submit_budget, mutex, msgqueue, parts>>

\* a producer task that exists calls scheduler_submit_packet: the random
\* task is created after line 1080
SubmitCreated ==
    \E p \in Producers :
        /\ p = "random" => app.pc = "done"
        /\ \E class_id \in ProducerClasses(p) :
              SubmitPrepare(p, class_id, packet_counts[class_id])

LockedEnqueue == \E p \in Producers : Locked(p, SubmitEnqueue(p))

InitMutex ==
    /\ InitWith([class_types |-> <<DATA_TYPE_INT32, DATA_TYPE_FLOAT, DATA_TYPE_INT16,
                                   DATA_TYPE_INT32>>,
                 packet_counts |-> <<10, 8, 12, 10>>])
    /\ submit_budget = MaxSubmits
    /\ clock_budget = MaxClockSteps
    /\ mutex = "free"
    /\ app = [pc |-> "random_type", random_packet_type |-> DATA_TYPE_INT8]
    /\ QueueUnused
    /\ PartsUnused

NextMutex ==
    \/ InitRandomType
    \/ Outside(SubmitCreated)
    \/ ProducerTake
    \/ LockedEnqueue
    \/ Outside(TickStart)
    \/ SchedulerTake
    \/ Locked("scheduler", FindEarliest)
    \/ Locked("scheduler", AssembleClass)
    \/ Locked("scheduler", SendDataPacket)
    \/ Outside(NoDataToTransmit)
    \/ Outside(TransmitAny)
    \/ Locked("scheduler", CountTransmitted)
    \/ Outside(AdvanceClock)

SpecMutex == InitMutex /\ [][NextMutex]_vars

----------------------------------------------------------------------------
(* The scheduler on a configuration of int8 classes with large element counts *)

\* a configuration the terminal can produce: every class of type int8, class
\* counts within 1..100 and a random packet count within 1..200
InitCounts ==
    /\ InitWith([class_types |-> <<DATA_TYPE_INT8, DATA_TYPE_INT8, DATA_TYPE_INT8,
                                  DATA_TYPE_INT8>>,
                 packet_counts |-> <<64, 100, 100, 128>>])
    /\ submit_budget = MaxSubmits
    /\ clock_budget = MaxClockSteps
    /\ mutex = "free"
    /\ app = AppDone
    /\ QueueUnused
    /\ PartsUnused

SpecCounts == InitCounts /\ [][Next]_vars

----------------------------------------------------------------------------
(* The station 80 ms before its millisecond clock wraps from 2^32 - 1 to 0,  *)
(* some 49.7 days after boot, with empty queues; the statistics are counted *)
(* from that moment.                                                        *)

\* get_current_time_ms() = 2^32 - 80
ClockBeforeWrap == Add32(UINT32_MAX, -79)

InitWrap ==
    /\ clock = ClockBeforeWrap
    /\ tick_due = TRUE
    /\ packet_queues = [c \in Classes |-> queue_init]
    /\ class_types = Arr(<<DATA_TYPE_INT32, DATA_TYPE_FLOAT, DATA_TYPE_INT16, DATA_TYPE_INT32>>)
    /\ class_deadlines = Arr(Deadlines)
    /\ processing_threshold = MIN_THRESHOLD
    /\ packet_counts = Arr(<<10, 8, 12, 10>>)
    /\ packets_processed = 0
    /\ packets_transmitted = 0
    /\ deadline_misses = 0
    /\ current_time_ms = Add32(ClockBeforeWrap, -SCHEDULER_CHECK_INTERVAL_MS)
    /\ sched = SchedIdle
    /\ prod = [p \in Producers |-> ProdIdle]
    /\ last_frame = NoFrame
    /\ emitted_upto = NoCounts
    /\ samples_emitted = 0
    /\ next_id = 1
    /\ submit_budget = MaxSubmits
    /\ clock_budget = MaxClockSteps
    /\ mutex = "free"
    /\ app = AppDone
    /\ QueueUnused
    /\ PartsUnused

SpecWrap == InitWrap /\ [][Next]_vars

----------------------------------------------------------------------------
(* Calls of the msgqueue.c functions on one queue, from queue_init or from  *)
(* a queue that k calls of queue_enqueue have filled; malloc may fail.      *)

\* the variables of the 4-class station, which does not run here
station == <<clock, clock_budget, tick_due, packet_queues, ctx_config, ctx_stats,
             sched, prod, history, next_id, submit_budget, mutex, app>>

\* the queue after queue_init and k successful calls of queue_enqueue with
\* the packets 1 .. k: malloc returned the addresses 1 .. k, every node was
\* linked behind the tail of the call before
Filled(k) ==
    [head |-> IF k = 0 THEN NULL ELSE 1,
     tail |-> IF k = 0 THEN NULL ELSE k,
     count |-> k,
     mem |-> [n \in Nodes |->
                IF n <= k
                THEN [used |-> TRUE, packet |-> n,
                      next |-> IF n < k THEN n + 1 ELSE NULL]
                ELSE FreeNode]]

BacklogSizes == {0, 1, 2, MAX_QUEUE_SIZE - 1, MAX_QUEUE_SIZE}

\* the packet passed to the next call: a packet that never was in the queue
NewPacket == MAX_QUEUE_SIZE + 1 + msgq_call.calls

\* the record of a call of op with argument arg that returned r
Called(op, arg, r) ==
    [op |-> op, arg |-> arg, ret |-> r.ret, out |-> r.packet, before |-> Content(msgq),
     prev_op |-> msgq_call.op, prev_ret |-> msgq_call.ret,
     calls |-> msgq_call.calls + 1]

CallEnqueue ==
    /\ msgq_call.calls < MaxQueueOps
    /\ \E new_node \in {NULL, Malloc(msgq.mem)} :
          LET r == msgqueue_enqueue(msgq, NewPacket, new_node)
          IN  /\ msgq' = r.queue
              /\ msgq_call' = Called("enqueue", NewPacket, [ret |-> r.ret, packet |-> 0])
    /\ UNCHANGED <<station, parts>>

CallEnqueueFront ==
    /\ msgq_call.calls < MaxQueueOps
    /\ \E new_node \in {NULL, Malloc(msgq.mem)} :
          LET r == msgqueue_enqueue_front(msgq, NewPacket, new_node)
          IN  /\ msgq' = r.queue
              /\ msgq_call' = Called("enqueue_front", NewPacket,
                                     [ret |-> r.ret, packet |-> 0])
    /\ UNCHANGED <<station, parts>>

CallDequeue ==
    /\ msgq_call.calls < MaxQueueOps
    /\ LET r == msgqueue_dequeue(msgq)
       IN  /\ msgq' = r.queue
           /\ msgq_call' = Called("dequeue", 0, r)
    /\ UNCHANGED <<station, parts>>

CallPeek ==
    /\ msgq_call.calls < MaxQueueOps
    /\ LET r == msgqueue_peek(msgq)
       IN  /\ msgq' = r.queue
           /\ msgq_call' = Called("peek", 0, r)
    /\ UNCHANGED <<station, parts>>

InitQueue ==
    /\ InitWith([class_types |-> <<DATA_TYPE_INT32, DATA_TYPE_FLOAT, DATA_TYPE_INT16,
                                  DATA_TYPE_INT32>>,
                 packet_counts |-> <<10, 8, 12, 10>>])
    /\ submit_budget = 0
    /\ clock_budget = 0
    /\ mutex = "free"
    /\ app = AppDone
    /\ \E k \in BacklogSizes : msgq = Filled(k)
    /\ msgq_call = NoCall
    /\ PartsUnused

NextQueue == CallEnqueue \/ CallEnqueueFront \/ CallDequeue \/ CallPeek

SpecQueue == InitQueue /\ [][NextQueue]_vars

----------------------------------------------------------------------------
(* send_data_packet byte by byte: the buffer handed to esp_wifi_80211_tx.   *)
(* A C array is a function from 0; a MAC address is an array of 6 bytes.    *)

\* the station at rest while another component is examined
StationParked ==
    /\ InitWith([class_types |-> <<DATA_TYPE_INT32, DATA_TYPE_FLOAT, DATA_TYPE_INT16,
                                  DATA_TYPE_INT32>>,
                 packet_counts |-> <<10, 8, 12, 10>>])
    /\ submit_budget = 0
    /\ clock_budget = 0
    /\ mutex = "free"
    /\ app = AppDone
    /\ QueueUnused

\* byte k of the little-endian representation of a 16- or 32-bit value
ByteOf(v, k) ==
    (v \div (CASE k = 0 -> 1 [] k = 1 -> 256 [] k = 2 -> 65536 [] OTHER -> 16777216)) % 256

\* the value of 4 little-endian bytes, as the 32-bit pattern
Le32Of(b) ==
    b[1] + 256 * b[2] + 65536 * b[3]
    + 16777216 * (IF b[4] >= 128 THEN b[4] - 256 ELSE b[4])

\* the bytes of the header with total_size in network byte order
HeaderBytesNetworkOrder(header) ==
    [i \in 0 .. SizeofHeader - 1 |->
        IF i < MAX_CLASSES THEN header.class_counts[i]
        ELSE IF i < MAX_CLASSES + MAX_CLASSES * SIZEOF_DATA_TYPE
        THEN ByteOf(header.class_types[(i - MAX_CLASSES) \div SIZEOF_DATA_TYPE],
                    (i - MAX_CLASSES) % SIZEOF_DATA_TYPE)
        ELSE IF i < MAX_CLASSES + MAX_CLASSES * SIZEOF_DATA_TYPE + 2
        THEN ByteOf(header.total_size,
                    1 - (i - (MAX_CLASSES + MAX_CLASSES * SIZEOF_DATA_TYPE)))
        ELSE ByteOf(header.timestamp,
                    i - (MAX_CLASSES + MAX_CLASSES * SIZEOF_DATA_TYPE + 2))]

\* memcpy source of a packed data_packet_header_t: its sizeof bytes in order
HeaderBytes(header) ==
    [i \in 0 .. SizeofHeader - 1 |->
        IF i < MAX_CLASSES THEN header.class_counts[i]
        ELSE IF i < MAX_CLASSES + MAX_CLASSES * SIZEOF_DATA_TYPE
        THEN ByteOf(header.class_types[(i - MAX_CLASSES) \div SIZEOF_DATA_TYPE],
                    (i - MAX_CLASSES) % SIZEOF_DATA_TYPE)
        ELSE IF i < MAX_CLASSES + MAX_CLASSES * SIZEOF_DATA_TYPE + 2
        THEN ByteOf(header.total_size, i - (MAX_CLASSES + MAX_CLASSES * SIZEOF_DATA_TYPE))
        ELSE ByteOf(header.timestamp,
                    i - (MAX_CLASSES + MAX_CLASSES * SIZEOF_DATA_TYPE + 2))]

\* memset(&packet_buffer[..], 0xFF, 6)
BroadcastAddr == [i \in 0 .. 5 |-> 255]

\* the address field left as memset(packet_buffer, 0, packet_size) made it
AddrOrZero(ap_info) == IF ap_info.ok THEN ap_info.bssid ELSE [i \in 0 .. 5 |-> 0]

\* lines 640-645 and 653-658: the BSSID of the AP record, or broadcast when
\* esp_wifi_sta_get_ap_info fails
AddrOrBroadcast(ap_info) == IF ap_info.ok THEN ap_info.bssid ELSE BroadcastAddr

\* Lines 595-670 of send_data_packet on the inputs in, up to the radio write:
\* the header and the buffer.  in.ap_info1 and in.ap_info2 are the results of
\* the two calls of esp_wifi_sta_get_ap_info, in.mac that of esp_wifi_get_mac.
BuildPacket(in) ==
    LET size == SendSize(in.size)
        header == [class_counts |-> in.class_counts,
                   class_types |-> in.class_types,
                   total_size |-> size,
                   timestamp |-> in.now]
        packet_size == PacketSize(size)
        address_1 == AddrOrBroadcast(in.ap_info1)
        address_3 == AddrOrBroadcast(in.ap_info2)
        bytes == HeaderBytes(header)
    IN  [header |-> header,
         packet_size |-> packet_size,
         packet_buffer |->
            [i \in 0 .. packet_size - 1 |->
                IF i = 0 THEN 8
                ELSE IF i = 1 THEN 1
                ELSE IF i \in 4 .. 9 THEN address_1[i - 4]
                ELSE IF i \in 10 .. 15 THEN in.mac[i - 10]
                ELSE IF i \in 16 .. 21 THEN address_3[i - 16]
                ELSE IF i \in HEADER_SIZE .. HEADER_SIZE + SizeofHeader - 1
                THEN bytes[i - HEADER_SIZE]
                ELSE IF i >= HEADER_SIZE + SizeofHeader
                THEN in.data[i - HEADER_SIZE - SizeofHeader]
                ELSE 0]]

\* the MAC address of the station interface and the BSSID of its AP
StaMac == [i \in 0 .. 5 |-> <<36, 10, 196, 0, 1, 16>>[i + 1]]
ApBssid == [i \in 0 .. 5 |-> <<36, 10, 196, 0, 2, 32>>[i + 1]]

\* the data buffer of process_packets: MAX_TX_SIZE bytes, zero behind the
\* actual_data_size bytes copied into it
DataBuffer(actual_data_size, seed) ==
    [i \in 0 .. MAX_TX_SIZE - 1 |->
        IF i < actual_data_size THEN (seed + 7 * i) % 256 ELSE 0]

\* the sizes process_packets calls send_data_packet with
FrameSizes == {1, 40, 96, MAX_TX_SIZE}

\* process_packets calls send_data_packet
InitFrame ==
    /\ StationParked
    /\ power = Unused /\ burst = Unused /\ rx = Unused /\ ea = Unused /\ live = Unused /\ ap = Unused
    /\ \E size \in FrameSizes, seed \in {1, 255}, ok1 \in BOOLEAN, ok2 \in BOOLEAN,
          malloc_ok \in BOOLEAN, cfg \in Configs,
          now \in {BOOT_DELAY_MS, Add32(UINT32_MAX, -79)},
          class_counts \in {<<10, 0, 0, 0>>, <<1, 8, 12, 200>>} :
          txcall = [pc |-> "build",
                    in |-> [data |-> DataBuffer(size, seed),
                            size |-> size,
                            class_counts |-> Arr(class_counts),
                            class_types |-> Arr(cfg.class_types),
                            now |-> now,
                            ap_info1 |-> [ok |-> ok1, bssid |-> ApBssid],
                            ap_info2 |-> [ok |-> ok2, bssid |-> ApBssid],
                            mac |-> StaMac,
                            malloc_ok |-> malloc_ok],
                    out |-> Unused,
                    ret |-> "none"]

\* lines 593-670: the buffer is built, or malloc failed (624-628)
SendBuild ==
    /\ txcall.pc = "build"
    /\ txcall' = IF txcall.in.malloc_ok
                 THEN [txcall EXCEPT !.pc = "tx", !.out = BuildPacket(txcall.in)]
                 ELSE [txcall EXCEPT !.pc = "returned", !.ret = "ESP_FAIL"]
    /\ UNCHANGED <<station, msgqueue, power, burst, rx, ea, live, ap>>

\* lines 674-694: esp_wifi_80211_tx succeeds or fails, and its result is returned
SendTx ==
    /\ txcall.pc = "tx"
    /\ \E ret \in {"ESP_OK", "ESP_FAIL"} :
          txcall' = [txcall EXCEPT !.pc = "returned", !.ret = ret]
    /\ UNCHANGED <<station, msgqueue, power, burst, rx, ea, live, ap>>

NextFrame == SendBuild \/ SendTx

SpecFrame == InitFrame /\ [][NextFrame]_vars

\* The receiving side of the codec.  The fields of the application header
\* are read at the offsets of the packed data_packet_header_t (lines 77-82);
\* the checks and their order are those of the decoder's description.

\* the field of the header that starts at byte off behind the MAC header
HeaderField32(frame, off) ==
    Le32Of([k \in 1 .. 4 |-> frame[HEADER_SIZE + off + k - 1]])

\* the data_packet_header_t at the front of the frame body
HeaderOf(frame) ==
    [class_counts |-> [c \in Classes |-> frame[HEADER_SIZE + c]],
     class_types |->
        [c \in Classes |-> HeaderField32(frame, MAX_CLASSES + c * SIZEOF_DATA_TYPE)],
     total_size |->
        frame[HEADER_SIZE + MAX_CLASSES + MAX_CLASSES * SIZEOF_DATA_TYPE]
        + 256 * frame[HEADER_SIZE + MAX_CLASSES + MAX_CLASSES * SIZEOF_DATA_TYPE + 1],
     timestamp |->
        HeaderField32(frame, MAX_CLASSES + MAX_CLASSES * SIZEOF_DATA_TYPE + 2)]

CodecError(e) == [error |-> e]

\* decode of a frame of len bytes by the receiver whose MAC address is
\* local_mac: the six steps in order; the payload of a truncated frame is
\* what is there
decode(frame, len, local_mac) ==
    IF len < HEADER_SIZE THEN CodecError("TooShortFor80211")
    ELSE IF frame[0] # 8 \/ frame[1] % 4 # 1 THEN CodecError("NotOurFrame")
    ELSE IF [i \in 0 .. 5 |-> frame[4 + i]] \notin {local_mac, BroadcastAddr}
    THEN CodecError("NotForUs")
    ELSE IF len < HEADER_SIZE + SizeofHeader THEN CodecError("TooShortForAppHeader")
    ELSE LET header == HeaderOf(frame)
             start == HEADER_SIZE + SizeofHeader
             avail == IF len - start < header.total_size
                      THEN len - start
                      ELSE header.total_size
         IN  IF \/ header.total_size > MAX_PACKET_SIZE
                \/ \E c \in Classes : header.class_types[c] \notin DataTypes
             THEN CodecError("InvalidHeader")
             ELSE [error |-> "none",
                   header |-> header,
                   payload |-> [i \in 0 .. avail - 1 |-> frame[start + i]],
                   truncated |-> len < start + header.total_size]

----------------------------------------------------------------------------
(* The transmit-power controller: auto_tx_power_task on its clone of the    *)
(* configuration (scheduler_init, line 1137), and adjust_tx_power_by_rssi   *)
(* called by the WiFi event handler on the configuration itself.            *)

\* values of an int8_t rssi: its extremes and both sides of every threshold
RssiValues ==
    {-128, RSSI_FAIR - 1, RSSI_FAIR, RSSI_GOOD - 1, RSSI_GOOD,
     RSSI_EXCELLENT - 1, RSSI_EXCELLENT, 127}

\* the values cmd_wifi_tx_power stores: 8 .. 84 after its clamp
TxPowerSettings == 8 .. 84

\* the if chain of lines 951-959 with > for >= in its first test
TargetPowerStrict(rssi, wifi_tx_power) ==
    IF rssi > RSSI_EXCELLENT THEN TX_POWER_MIN
    ELSE IF rssi >= RSSI_GOOD THEN TX_POWER_LOW
    ELSE IF rssi >= RSSI_FAIR THEN TX_POWER_MEDIUM
    ELSE TX_POWER_HIGH

\* the if chain of lines 951-959 without its final else
TargetPowerNoElse(rssi, wifi_tx_power) ==
    IF rssi >= RSSI_EXCELLENT THEN TX_POWER_MIN
    ELSE IF rssi >= RSSI_GOOD THEN TX_POWER_LOW
    ELSE IF rssi >= RSSI_FAIR THEN TX_POWER_MEDIUM
    ELSE wifi_tx_power

\* new_tx_power of lines 949-959 (and 897-912)
TargetPower(rssi, wifi_tx_power) ==
    IF rssi >= RSSI_EXCELLENT THEN TX_POWER_MIN
    ELSE IF rssi >= RSSI_GOOD THEN TX_POWER_LOW
    ELSE IF rssi >= RSSI_FAIR THEN TX_POWER_MEDIUM
    ELSE TX_POWER_HIGH

\* Lines 943-970 (and 886-925) on the stored power wifi_tx_power and the
\* power the radio was last set to: ap_info is the result of
\* esp_wifi_sta_get_ap_info.  [wifi_tx_power, radio, set]
adjust_tx_power_by_rssi(wifi_tx_power, radio, ap_info) ==
    IF ~ap_info.ok
    THEN [wifi_tx_power |-> wifi_tx_power, radio |-> radio, set |-> FALSE]
    ELSE LET new_tx_power == TargetPower(ap_info.rssi, wifi_tx_power)
         IN  IF new_tx_power # wifi_tx_power
             THEN [wifi_tx_power |-> new_tx_power, radio |-> new_tx_power, set |-> TRUE]
             ELSE [wifi_tx_power |-> wifi_tx_power, radio |-> radio, set |-> FALSE]

\* no evaluation was made yet; power.last is the history of the last
\* evaluation and power.adjusted that of the copies evaluated with a reading
NoEval == [by |-> "none", ok |-> FALSE, rssi |-> 0, before |-> 0, set |-> FALSE]

\* the results of esp_wifi_sta_get_ap_info: a failure, or a record with an rssi
ApInfos == {[ok |-> FALSE, rssi |-> 0]} \cup {[ok |-> TRUE, rssi |-> r] : r \in RssiValues}

\* scheduler_init has cloned the configuration for auto_tx_power_task when
\* auto_tx_power is set; wifi_init_sta has set the radio to the configured
\* power (line 354)
InitPower ==
    /\ StationParked
    /\ txcall = Unused /\ burst = Unused /\ rx = Unused /\ ea = Unused /\ live = Unused /\ ap = Unused
    /\ \E tx_power \in TxPowerSettings, auto \in BOOLEAN :
          power = [auto_tx_power |-> auto,
                   config |-> tx_power,
                   task_config |-> tx_power,
                   radio |-> tx_power,
                   start |-> tx_power,
                   evals |-> 0,
                   adjusted |-> {},
                   last |-> NoEval]

\* one round of the loop of auto_tx_power_task, lines 939-978
AutoTxPowerTask ==
    /\ power.evals < MaxEvals
    /\ power.auto_tx_power
    /\ \E ap_info \in ApInfos :
          LET r == adjust_tx_power_by_rssi(power.task_config, power.radio, ap_info)
          IN  power' = [power EXCEPT
                          !.task_config = r.wifi_tx_power,
                          !.radio = r.radio,
                          !.evals = @ + 1,
                          !.adjusted = IF ap_info.ok THEN @ \cup {"task"} ELSE @,
                          !.last = [by |-> "task", ok |-> ap_info.ok, rssi |-> ap_info.rssi,
                                    before |-> power.task_config, set |-> r.set]]
    /\ UNCHANGED <<station, msgqueue, txcall, burst, rx, ea, live, ap>>

\* WIFI_EVENT_STA_CONNECTED, lines 233-242: adjust_tx_power_by_rssi on the
\* configuration of the event handler
ConnectedEvent ==
    /\ power.evals < MaxEvals
    /\ power.auto_tx_power
    /\ \E ap_info \in ApInfos :
          LET r == adjust_tx_power_by_rssi(power.config, power.radio, ap_info)
          IN  power' = [power EXCEPT
                          !.config = r.wifi_tx_power,
                          !.radio = r.radio,
                          !.evals = @ + 1,
                          !.adjusted = IF ap_info.ok THEN @ \cup {"event"} ELSE @,
                          !.last = [by |-> "event", ok |-> ap_info.ok, rssi |-> ap_info.rssi,
                                    before |-> power.config, set |-> r.set]]
    /\ UNCHANGED <<station, msgqueue, txcall, burst, rx, ea, live, ap>>

NextPower == AutoTxPowerTask \/ ConnectedEvent

SpecPower == InitPower /\ [][NextPower]_vars

----------------------------------------------------------------------------
(* random_packet_task: the producer of the random class and its burst mode  *)

\* random_range, lines 810-816: the values min + esp_random() % (max - min + 1)
\* can take
random_range(min, max) == IF min >= max THEN {min} ELSE min .. max

\* a >= b on uint32_t
Ge32(a, b) == ~Lt32(a, b)

\* lines 843-845: the test that starts a burst
BurstEnters(config, burst_mode, current_time, start_time) ==
    /\ config.random_packet_burst_enabled
    /\ ~burst_mode
    /\ Gt32(current_time, Add32(start_time, config.random_packet_burst_period))

\* line 851: the test that ends a burst
BurstLeaves(burst_mode, current_time, burst_start_time) ==
    /\ burst_mode
    /\ Gt32(current_time, Add32(burst_start_time, BURST_DURATION))

\* start_time is left as it was when a burst ends
StartTimeKept(current_time, start_time) == start_time

\* line 853: start_time when a burst ends
StartTimeAfterBurst(current_time, start_time) == current_time

\* the configurations of the task: the burst switch, the burst period and
\* interval, the normal intervals (terminal_cmd.c 102-133 keeps min < max)
BurstConfigs ==
    {[random_packet_burst_enabled |-> TRUE, random_packet_burst_period |-> 100,
      random_packet_burst_interval |-> 20,
      random_packet_min_interval |-> 40, random_packet_max_interval |-> 44],
     [random_packet_burst_enabled |-> TRUE, random_packet_burst_period |-> 100,
      random_packet_burst_interval |-> 20,
      random_packet_min_interval |-> 6000, random_packet_max_interval |-> 6001],
     [random_packet_burst_enabled |-> FALSE, random_packet_burst_period |-> 100,
      random_packet_burst_interval |-> 20,
      random_packet_min_interval |-> 40, random_packet_max_interval |-> 44]}

\* the clock when the task starts: after the boot delay, or so late that the
\* first burst runs across the wrap of the clock
BurstStartTimes == {BOOT_DELAY_MS, Add32(UINT32_MAX, -3000)}

\* lines 820-837: the task has read the clock and drawn the first interval.
\* The history: task_start is the clock at the start of the task, entries
\* and exits count the bursts started and ended, entered_at and left_at are
\* the times of the rounds that started and ended the last burst, since is
\* the time of the last submission or, if later, of the start of the burst.
\* The sample itself goes through create_test_packet to
\* scheduler_submit_packet, which is the producer of the scheduler model
InitBurst ==
    /\ StationParked
    /\ txcall = Unused /\ power = Unused /\ rx = Unused /\ ea = Unused /\ live = Unused /\ ap = Unused
    /\ \E config \in BurstConfigs, start_time \in BurstStartTimes :
       \E r \in random_range(config.random_packet_min_interval,
                             config.random_packet_max_interval) :
          burst = [pc |-> "loop",
                   config |-> config,
                   clock |-> start_time,
                   burst_mode |-> FALSE,
                   start_time |-> start_time,
                   burst_start_time |-> 0,
                   next_packet_time |-> Add32(start_time, r),
                   rounds |-> 0,
                   task_start |-> start_time,
                   entries |-> 0,
                   exits |-> 0,
                   entered_at |-> 0,
                   left_at |-> 0,
                   since |-> start_time]

\* one round of the loop, lines 839-878: the clock is read, the burst mode
\* is switched, a sample is submitted when one is due and the next one is
\* scheduled, and the task sleeps for POLL_MS
RandomPacketRound ==
    /\ burst.pc = "loop"
    /\ burst.rounds < MaxRounds
    /\ LET config == burst.config
           current_time == burst.clock
           enters == BurstEnters(config, burst.burst_mode, current_time, burst.start_time)
           leaves == ~enters /\ BurstLeaves(burst.burst_mode, current_time, burst.burst_start_time)
           mode == IF enters THEN TRUE ELSE IF leaves THEN FALSE ELSE burst.burst_mode
           due == Ge32(current_time, burst.next_packet_time)
       IN  \E r \in IF due /\ ~mode
                    THEN random_range(config.random_packet_min_interval,
                                      config.random_packet_max_interval)
                    ELSE {config.random_packet_burst_interval} :
              burst' = [burst EXCEPT
                          !.clock = Add32(current_time, POLL_MS),
                          !.burst_mode = mode,
                          !.burst_start_time = IF enters THEN current_time ELSE @,
                          !.start_time = IF leaves
                                         THEN StartTimeAfterBurst(current_time, @)
                                         ELSE @,
                          !.next_packet_time = IF due THEN Add32(current_time, r) ELSE @,
                          !.rounds = @ + 1,
                          !.entries = IF enters THEN @ + 1 ELSE @,
                          !.exits = IF leaves THEN @ + 1 ELSE @,
                          !.entered_at = IF enters THEN current_time ELSE @,
                          !.left_at = IF leaves THEN current_time ELSE @,
                          !.since = IF due \/ enters THEN current_time ELSE @]
    /\ UNCHANGED <<station, msgqueue, txcall, power, rx, ea, live, ap>>

NextBurst == RandomPacketRound

SpecBurst == InitBurst /\ [][NextBurst]_vars

----------------------------------------------------------------------------
(* The receiver: decode, per-class delivery, latency                        *)

\* receive_clock_ms - header.timestamp of two uint32 clocks, as the signed
\* 32-bit difference
LatencyMs(receive_clock_ms, timestamp) ==
    LET d == receive_clock_ms - timestamp
    IN  IF d > INT32_MAX THEN d - 2 * INT32_MAX - 2
        ELSE IF d < -INT32_MAX - 1 THEN d + 2 * INT32_MAX + 2
        ELSE d

\* the clamp: a negative latency or one above LATENCY_SANITY_MAX is a clock anomaly
ClockAnomaly(latency_ms) == latency_ms < 0 \/ latency_ms > LATENCY_SANITY_MAX

\* the latency reported without the clamp
ReportedLatencyRaw(latency_ms) == latency_ms

\* the latency reported with a frame
ReportedLatency(latency_ms) == IF ClockAnomaly(latency_ms) THEN 0 ELSE latency_ms

\* the bytes of class c in the payload and those of the classes before it
SliceBytes(header, c) == header.class_counts[c] * ElementSize(header.class_types[c])

RECURSIVE SliceOffset(_, _)
SliceOffset(header, c) ==
    IF c = 0 THEN 0 ELSE SliceOffset(header, c - 1) + SliceBytes(header, c - 1)

\* expected_payload_bytes(header)
expected_payload_bytes(header) == SliceOffset(header, MAX_CLASSES)

\* the walk of the payload in class order: the slice of every class with a
\* count, up to the first slice that overruns total_size or the bytes present
Deliveries(header, payload, present) ==
    LET limit == IF present < header.total_size THEN present ELSE header.total_size
        fits(c) == \A d \in 0 .. c :
                      header.class_counts[d] > 0 =>
                          SliceOffset(header, d) + SliceBytes(header, d) <= limit
    IN  [c \in Classes |->
            IF header.class_counts[c] > 0 /\ fits(c)
            THEN [i \in 1 .. SliceBytes(header, c) |->
                     payload[SliceOffset(header, c) + i - 1]]
            ELSE <<>>]

\* nothing was received yet
NoReport == [outcome |-> "none"]

\* the frames on the air: built by send_data_packet at time now from
\* class_counts elements per class, then as sent, cut short, addressed to
\* another station, or with a class type that is no data type
AirFrame(class_counts, now, damage) ==
    LET types == Arr(<<DATA_TYPE_INT32, DATA_TYPE_FLOAT, DATA_TYPE_INT16, DATA_TYPE_INT8>>)
        h == [class_counts |-> Arr(class_counts), class_types |-> types]
        size == expected_payload_bytes(h)
        built == BuildPacket([data |-> DataBuffer(size, 1),
                              size |-> size,
                              class_counts |-> Arr(class_counts),
                              class_types |-> IF damage = "type"
                                              THEN [types EXCEPT ![CLASS_1] = 9]
                                              ELSE types,
                              now |-> now,
                              ap_info1 |-> [ok |-> TRUE,
                                            bssid |-> IF damage = "foreign"
                                                      THEN StaMac ELSE ApBssid],
                              ap_info2 |-> [ok |-> TRUE, bssid |-> ApBssid],
                              mac |-> StaMac,
                              malloc_ok |-> TRUE])
        len == CASE damage = "cut" -> built.packet_size - 3
                 [] damage = "stub" -> 10
                 [] OTHER -> built.packet_size
    IN  [len |-> len, bytes |-> [i \in 0 .. len - 1 |-> built.packet_buffer[i]]]

Damages == {"none", "cut", "stub", "foreign", "type"}

\* sender clocks at emission and receiver clocks at reception
SenderTimes == {1000, Add32(UINT32_MAX, -79)}
ReceiveTimes == {20, 500, 1000, 1500, 1000 + LATENCY_SANITY_MAX, 1001 + LATENCY_SANITY_MAX}

InitRecv ==
    /\ StationParked
    /\ txcall = Unused /\ power = Unused /\ burst = Unused /\ ea = Unused /\ live = Unused /\ ap = Unused
    /\ rx = [pc |-> "listening",
             frames |-> 0,
             data_packets |-> 0,
             error_packets |-> 0,
             clock_anomalies |-> 0,
             last |-> NoReport]

\* one received frame, steps 1 to 8 of the receiver
ReceiveFrame ==
    /\ rx.pc = "listening"
    /\ rx.frames < MaxFrames
    /\ \E class_counts \in {<<10, 0, 0, 0>>, <<2, 4, 0, 1>>}, now \in SenderTimes,
          damage \in Damages, receive_clock_ms \in ReceiveTimes :
          LET frame == AirFrame(class_counts, now, damage)
              d == decode(frame.bytes, frame.len, ApBssid)
          IN  IF d.error = "InvalidHeader"
              THEN rx' = [rx EXCEPT !.frames = @ + 1,
                                    !.error_packets = @ + 1,
                                    !.last = [outcome |-> "invalid"]]
              ELSE IF d.error # "none"
              THEN rx' = [rx EXCEPT !.frames = @ + 1,
                                    !.last = [outcome |-> "dropped"]]
              ELSE LET latency_ms == LatencyMs(receive_clock_ms, d.header.timestamp)
                       present == frame.len - HEADER_SIZE - SizeofHeader
                   IN  rx' = [rx EXCEPT
                                !.frames = @ + 1,
                                !.data_packets = @ + 1,
                                !.clock_anomalies =
                                    IF ClockAnomaly(latency_ms) THEN @ + 1 ELSE @,
                                !.last = [outcome |-> "delivered",
                                          sent |-> [class_counts |-> class_counts,
                                                    now |-> now],
                                          receive_clock_ms |-> receive_clock_ms,
                                          header |-> d.header,
                                          truncated |-> d.truncated,
                                          size_mismatch |->
                                              expected_payload_bytes(d.header)
                                                  # d.header.total_size,
                                          delivered |->
                                              Deliveries(d.header, d.payload, present),
                                          latency |-> ReportedLatency(latency_ms)]]
    /\ UNCHANGED <<station, msgqueue, txcall, power, burst, ea, live, ap>>

NextRecv == ReceiveFrame

SpecRecv == InitRecv /\ [][NextRecv]_vars

----------------------------------------------------------------------------
(* The energy-aware station: process_packets with putback, lines 326-519 of *)
(* src/energy_aware_sched_station_1/main/station_example_main.c, on the     *)
(* queues of msgqueue.c.  A queued packet is a number; its size and its     *)
(* deadline are functions of the number.  The mutex is explicit: ea.mutex   *)
(* is its holder; a task takes it in one step, and runs its critical        *)
(* section and gives it back in the next.                                   *)

EaClasses == 0 .. EA_MAX_CLASSES - 1

\* packet.size: every sample of a run has the same size
EaSize(st, id) == st.size

\* packet.deadline: the first st.expired samples of CLASS_1 are past their
\* deadline at the first tick, the other queued ones are due within DDL_GAP,
\* a sample submitted during the run is due after the deadline of its class
EaDeadline(st, class_id, id) ==
    IF class_id = 0 /\ id <= st.expired THEN Add32(st.t0, -1)
    ELSE IF id <= MAX_QUEUE_SIZE THEN Add32(st.t0, SCHEDULER_CHECK_INTERVAL_MS)
    ELSE Add32(st.t0, IF class_id = 0 THEN CLASS_DDL_1 ELSE CLASS_DDL_2)

\* lines 343-364: the earliest deadline among the queue heads, UINT32_MAX
\* with earliest_class -1 when no head is earlier than that
RECURSIVE EaEarliest(_, _, _)
EaEarliest(st, i, best) ==
    IF i = EA_MAX_CLASSES THEN best
    ELSE LET p == msgqueue_peek(st.queues[i])
         IN  IF p.ret /\ Lt32(EaDeadline(st, i, p.packet), best.deadline)
             THEN EaEarliest(st, i + 1,
                             [class |-> i, deadline |-> EaDeadline(st, i, p.packet)])
             ELSE EaEarliest(st, i + 1, best)

\* lines 402-407: the sum of the sizes of the queue heads, a uint16_t
RECURSIVE EaHeadSizes(_, _)
EaHeadSizes(st, i) ==
    IF i = EA_MAX_CLASSES THEN 0
    ELSE LET p == msgqueue_peek(st.queues[i])
         IN  U16((IF p.ret THEN EaSize(st, p.packet) ELSE 0) + EaHeadSizes(st, i + 1))

\* process_packets has returned: the scheduler task sleeps until the next tick
EaReturn(st) ==
    [st EXCEPT !.pc = "idle", !.ticks = @ + 1,
               !.clock = Add32(@, SCHEDULER_CHECK_INTERVAL_MS)]

\* lines 490-492 and the head of the for loop: the class is done
EaNextClass(st) ==
    LET st1 == [st EXCEPT !.class_counts[st.class_id] = U8(st.point_count),
                          !.point_count = 0,
                          !.packet_available = FALSE,
                          !.class_id = @ + 1]
    IN  [st1 EXCEPT !.pc = IF st1.class_id = EA_MAX_CLASSES THEN "send" ELSE "dequeue"]

EaNoDequeue == [class_id |-> -1, packet |-> 0, remaining_space |-> 0, count |-> 0]

\* the run starts between two ticks; the history: putbacks is the set of
\* samples put back in the present call, lost that of the samples whose
\* putback failed, last_dequeue the last dequeue of the present call and
\* what it left, spun tells that a dequeue of the present call found what
\* the one before it had found
InitEa ==
    /\ StationParked
    /\ txcall = Unused /\ power = Unused /\ burst = Unused /\ rx = Unused /\ live = Unused /\ ap = Unused
    /\ \E k0 \in BacklogSizes, k1 \in {0, 1}, expired \in {0, 1}, size \in {40, 800} :
          /\ expired <= k0
          /\ ea = [pc |-> "idle",
                   mutex |-> "free",
                   producer |-> [pc |-> "idle", class_id |-> 0],
                   t0 |-> BOOT_DELAY_MS,
                   clock |-> BOOT_DELAY_MS,
                   size |-> size,
                   expired |-> expired,
                   queues |-> [c \in EaClasses |->
                                 IF c = 0 THEN Filled(k0)
                                 ELSE IF c = 1 THEN Filled(k1) ELSE msgqueue_init],
                   current_time |-> 0,
                   buffer_size |-> 0,
                   remaining_space |-> 0,
                   class_id |-> 0,
                   packet |-> 0,
                   packet_available |-> FALSE,
                   point_count |-> 0,
                   class_counts |-> [c \in EaClasses |-> 0],
                   points_processed |-> 0,
                   deadline_misses |-> 0,
                   packets_transmitted |-> 0,
                   ticks |-> 0,
                   submits |-> 0,
                   putbacks |-> {},
                   lost |-> {},
                   last_dequeue |-> EaNoDequeue,
                   spun |-> FALSE]

\* scheduler_task, lines 627-632, and line 331: the tick starts
EaTickStart ==
    /\ ea.pc = "idle"
    /\ ea.ticks < MaxTicks
    /\ ea' = [ea EXCEPT !.pc = "peek",
                        !.current_time = ea.clock,
                        !.class_counts = [c \in EaClasses |-> 0],
                        !.putbacks = {}, !.last_dequeue = EaNoDequeue,
                        !.spun = FALSE]
    /\ UNCHANGED <<station, msgqueue, txcall, power, burst, rx, live, ap>>

\* xSemaphoreTake(scheduler_ctx.mutex, portMAX_DELAY) by the scheduler task
EaSchedulerTake ==
    /\ ea.pc \in {"peek", "size", "dequeue", "miss", "putback", "count", "transmitted"}
    /\ ea.mutex = "free"
    /\ ea' = [ea EXCEPT !.mutex = "scheduler"]
    /\ UNCHANGED <<station, msgqueue, txcall, power, burst, rx, live, ap>>

\* the end of a critical section of the scheduler task that leaves st
EaGive(st) == [st EXCEPT !.mutex = xSemaphoreGive("scheduler")]

\* lines 337-377: the peek at the heads in one critical section, then the
\* test of the earliest deadline against current_time + DDL_GAP
EaPeek ==
    /\ ea.pc = "peek"
    /\ ea.mutex = "scheduler"
    /\ LET st == ea
           e == EaEarliest(st, 0, [class |-> -1, deadline |-> UINT32_MAX])
       IN  ea' = EaGive(IF e.class < 0 \/ Lt32(Add32(st.current_time, DDL_GAP), e.deadline)
                        THEN EaReturn(st)
                        ELSE [st EXCEPT !.pc = "size"])
    /\ UNCHANGED <<station, msgqueue, txcall, power, burst, rx, live, ap>>

\* lines 391-430: the sizes of the heads in a second critical section, and
\* the buffer, which malloc gives or refuses
EaSizeCalc ==
    /\ ea.pc = "size"
    /\ ea.mutex = "scheduler"
    /\ \E malloc_ok \in BOOLEAN :
          LET total_data_size == EaHeadSizes(ea, 0)
              buffer_size == IF total_data_size > MAX_TX_SIZE
                             THEN MAX_TX_SIZE ELSE total_data_size
          IN  ea' = EaGive(IF malloc_ok
                           THEN [ea EXCEPT !.pc = "dequeue",
                                           !.buffer_size = buffer_size,
                                           !.remaining_space = buffer_size,
                                           !.class_id = 0,
                                           !.point_count = 0]
                           ELSE EaReturn(ea))
    /\ UNCHANGED <<station, msgqueue, txcall, power, burst, rx, live, ap>>

\* lines 441-444 and the tests up to the next critical section: the dequeue
\* of the head of the class; no sample ends the loop of the class (485-487),
\* a late one goes to the miss count, one that does not fit to the putback,
\* the others are copied (475-478)
EaDequeue ==
    /\ ea.pc = "dequeue"
    /\ ea.mutex = "scheduler"
    /\ LET c == ea.class_id
           r == msgqueue_dequeue(ea.queues[c])
           found == [class_id |-> c, packet |-> r.packet,
                     remaining_space |-> ea.remaining_space,
                     count |-> r.queue.count]
           st == [ea EXCEPT !.queues[c] = r.queue,
                            !.packet = IF r.ret THEN r.packet ELSE @,
                            !.packet_available = r.ret,
                            !.last_dequeue = IF r.ret THEN found ELSE @,
                            !.spun = @ \/ (r.ret /\ found = ea.last_dequeue)]
       IN  ea' = EaGive(IF ~r.ret THEN EaNextClass(st)
                        ELSE IF Gt32(st.current_time, EaDeadline(st, c, st.packet))
                        THEN [st EXCEPT !.pc = "miss"]
                        ELSE IF EaSize(st, st.packet) > st.remaining_space
                        THEN [st EXCEPT !.pc = "putback"]
                        ELSE [st EXCEPT !.pc = "count",
                                        !.remaining_space = @ - EaSize(st, st.packet),
                                        !.point_count = @ + 1])
    /\ UNCHANGED <<station, msgqueue, txcall, power, burst, rx, live, ap>>

\* lines 452-458: the miss is counted, and the loop goes on
EaMiss ==
    /\ ea.pc = "miss"
    /\ ea.mutex = "scheduler"
    /\ ea' = EaGive([ea EXCEPT !.pc = "dequeue",
                               !.deadline_misses = @ + 1,
                               !.points_processed = @ + 1])
    /\ UNCHANGED <<station, msgqueue, txcall, power, burst, rx, live, ap>>

\* lines 464-471: queue_enqueue_front in a critical section of its own, its
\* result dropped, then continue
EaPutback ==
    /\ ea.pc = "putback"
    /\ ea.mutex = "scheduler"
    /\ LET c == ea.class_id
           r == msgqueue_enqueue_front(ea.queues[c], ea.packet, Malloc(ea.queues[c].mem))
           st == [ea EXCEPT !.queues[c] = r.queue,
                            !.putbacks = IF r.ret THEN @ \cup {<<c, ea.packet>>} ELSE @,
                            !.lost = IF r.ret THEN @ ELSE @ \cup {<<c, ea.packet>>}]
       IN  ea' = EaGive([st EXCEPT !.pc = "dequeue"])
    /\ UNCHANGED <<station, msgqueue, txcall, power, burst, rx, live, ap>>

\* lines 480-483: the copied sample is counted
EaCount ==
    /\ ea.pc = "count"
    /\ ea.mutex = "scheduler"
    /\ ea' = EaGive([ea EXCEPT !.pc = "dequeue", !.points_processed = @ + 1])
    /\ UNCHANGED <<station, msgqueue, txcall, power, burst, rx, live, ap>>

\* lines 498-505: the frame is sent when there is data
EaSend ==
    /\ ea.pc = "send"
    /\ \E ret_ok \in BOOLEAN :
          LET actual_data_size == U16(ea.buffer_size - ea.remaining_space)
          IN  ea' = IF actual_data_size > 0 /\ ret_ok
                    THEN [ea EXCEPT !.pc = "transmitted"]
                    ELSE EaReturn(ea)
    /\ UNCHANGED <<station, msgqueue, txcall, power, burst, rx, live, ap>>

\* lines 507-513: the frame is counted when the radio took it
EaTransmitted ==
    /\ ea.pc = "transmitted"
    /\ ea.mutex = "scheduler"
    /\ LET classes == Cardinality({c \in EaClasses : ea.class_counts[c] > 0})
       IN  ea' = EaGive(EaReturn([ea EXCEPT !.packets_transmitted = @ + classes]))
    /\ UNCHANGED <<station, msgqueue, txcall, power, burst, rx, live, ap>>

\* scheduler_submit_packet up to its xSemaphoreTake, lines 258-304
EaSubmitCall ==
    /\ ea.producer.pc = "idle"
    /\ ea.submits < MaxEaSubmits
    /\ \E c \in {0, 1} :
          ea' = [ea EXCEPT !.producer = [pc |-> "enqueue", class_id |-> c],
                           !.submits = @ + 1]
    /\ UNCHANGED <<station, msgqueue, txcall, power, burst, rx, live, ap>>

\* xSemaphoreTake(scheduler_ctx.mutex, portMAX_DELAY) by the producer, line 307
EaProducerTake ==
    /\ ea.producer.pc = "enqueue"
    /\ ea.mutex = "free"
    /\ ea' = [ea EXCEPT !.mutex = "producer"]
    /\ UNCHANGED <<station, msgqueue, txcall, power, burst, rx, live, ap>>

\* scheduler_submit_packet, lines 308-309: the producer enqueues its sample
\* in its critical section, between two critical sections of the scheduler
EaSubmit ==
    /\ ea.producer.pc = "enqueue"
    /\ ea.mutex = "producer"
    /\ LET c == ea.producer.class_id
           q == ea.queues[c]
           r == msgqueue_enqueue(q, MAX_QUEUE_SIZE + ea.submits, Malloc(q.mem))
       IN  ea' = [ea EXCEPT !.queues[c] = r.queue,
                            !.producer = [pc |-> "idle", class_id |-> 0],
                            !.mutex = xSemaphoreGive("producer")]
    /\ UNCHANGED <<station, msgqueue, txcall, power, burst, rx, live, ap>>

NextEa ==
    \/ EaTickStart \/ EaSchedulerTake \/ EaPeek \/ EaSizeCalc \/ EaDequeue
    \/ EaMiss \/ EaPutback \/ EaCount \/ EaSend \/ EaTransmitted
    \/ EaSubmitCall \/ EaProducerTake \/ EaSubmit

SpecEa == InitEa /\ [][NextEa]_vars

----------------------------------------------------------------------------
(* The station scheduler over unboundedly many periods.                    *)
(*                                                                         *)
(* process_packets compares the queued deadlines with the clock and with   *)
(* nothing else (lines 464-530), and away from the wrap of the 32-bit      *)
(* clock the outcome of a tick depends on the differences deadline - now   *)
(* only.  This component keeps now at BOOT_DELAY_MS and moves every queued *)
(* deadline back by one scheduler period when a period elapses; a deadline *)
(* more than one period in the past is kept one period in the past, which  *)
(* is missed and approaching all the same.  A submit and a tick are one    *)
(* step each.  No counter is kept: one accepted sample at a time carries   *)
(* id 1 and live.fate records what became of it.  packet_creator_task      *)
(* looks at the class periods once per check interval of 100 ms (lines     *)
(* 762-800), so that no class of it gets two samples within 100 ms,        *)
(* whatever the configured periods are; live.wait counts the scheduler     *)
(* periods since the last sample of each class, up to that interval.       *)
(* random_packet_task polls every 10 ms and submits at any time.           *)

\* samples the class queues hold together, at most
MaxQueued == 3

\* const TickType_t check_interval = pdMS_TO_TICKS(100) of packet_creator_task
CREATOR_CHECK_INTERVAL_MS == 100

\* scheduler ticks in one check interval of packet_creator_task
MinPeriodTicks == CREATOR_CHECK_INTERVAL_MS \div SCHEDULER_CHECK_INTERVAL_MS

\* packet_creator_task submits to every class at every tick
PeriodElapsedAlways(class_id, waited) == TRUE

\* lines 783 and 800: a class of packet_creator_task gets its next sample a
\* check interval after the last one at the earliest; random_packet_task is
\* not held back
PeriodElapsed(class_id, waited) ==
    class_id = CLASS_RANDOM \/ waited[class_id] >= MinPeriodTicks

\* the clock value every period of this component is seen from
LiveNow == BOOT_DELAY_MS

\* a deadline one period later, seen from the new now
Rebase(deadline) ==
    IF Gt32(LiveNow, deadline) THEN deadline
    ELSE deadline - SCHEDULER_CHECK_INTERVAL_MS

RebaseQueue(queue) ==
    [i \in DOMAIN queue |-> [queue[i] EXCEPT !.deadline = Rebase(@)]]

\* the samples in all class queues
RECURSIVE QueuedFrom(_, _)
QueuedFrom(queues, class_id) ==
    IF class_id >= MAX_CLASSES THEN 0
    ELSE Len(queues[class_id]) + QueuedFrom(queues, class_id + 1)

\* the for loop of lines 501-555 from class_id on, on the assembly state
\* a = [queues, data_buffer, data_ptr, remaining_space, missed]
RECURSIVE LiveAssemble(_, _)
LiveAssemble(a, class_id) ==
    IF class_id >= MAX_CLASSES THEN a
    ELSE LET st == ProcessClass(
                     [queue |-> a.queues[class_id],
                      data_buffer |-> a.data_buffer,
                      data_ptr |-> a.data_ptr,
                      remaining_space |-> a.remaining_space,
                      class_count |-> 0,
                      packets_processed |-> 0,
                      deadline_misses |-> 0,
                      missed |-> a.missed,
                      iterations |-> 0],
                     LiveNow)
         IN  LiveAssemble([queues |-> [a.queues EXCEPT ![class_id] = st.queue],
                           data_buffer |-> st.data_buffer,
                           data_ptr |-> st.data_ptr,
                           remaining_space |-> st.remaining_space,
                           missed |-> st.missed],
                          class_id + 1)

\* process_packets, lines 462-587, on the class queues: the early return
\* when no deadline approaches, or the assembly of all classes
LiveProcessPackets(queues) ==
    LET a == [queues |-> queues, data_buffer |-> <<>>, data_ptr |-> 0,
              remaining_space |-> MAX_TX_SIZE, missed |-> {}]
    IN  IF DeadlineApproaching(EarliestFrom(queues, 0, UINT32_MAX), LiveNow)
        THEN LiveAssemble(a, 0)
        ELSE a

\* what the tick made of the followed sample, the one with id 1
FateAfter(fate, a) ==
    IF \E m \in a.missed : m.id = 1 THEN "missed"
    ELSE IF \E i \in DOMAIN a.data_buffer : a.data_buffer[i].id = 1 THEN "emitted"
    ELSE fate

\* history: the tick assembled a frame or counted misses, and the followed
\* sample is still in its queue
LeftBehind(fate, queues, a) ==
    /\ fate = "queued"
    /\ FateAfter(fate, a) = "queued"
    /\ a.queues # queues

InitLive ==
    /\ \E cfg \in Configs : InitWith(cfg)
    /\ submit_budget = 0
    /\ clock_budget = 0
    /\ mutex = "free"
    /\ app = AppDone
    /\ QueueUnused
    /\ txcall = Unused /\ power = Unused /\ burst = Unused /\ rx = Unused /\ ea = Unused
    /\ ap = Unused
    /\ live = [pc |-> "run", queues |-> [c \in Classes |-> queue_init],
               tick_due |-> TRUE, fate |-> "none", class_id |-> 0,
               wait |-> [c \in Classes |-> 0], passed_over |-> FALSE]

\* scheduler_submit_packet, lines 400-458, called by a producer task with the
\* configured count of a class; the sample is followed or not
LiveSubmit ==
    /\ live.pc = "run"
    /\ QueuedFrom(live.queues, 0) < MaxQueued
    /\ \E class_id \in Classes : \E follow \in BOOLEAN :
          LET data_type == class_types[class_id]
              total_size == TotalSize(data_type, packet_counts[class_id])
              packet == [id |-> IF follow THEN 1 ELSE 0,
                         class_id |-> class_id,
                         deadline |-> DeadlineFor(LiveNow, class_id),
                         data_type |-> data_type,
                         data_count |-> packet_counts[class_id],
                         size |-> total_size]
              r == queue_enqueue(live.queues[class_id], packet)
          IN  /\ PeriodElapsed(class_id, live.wait)
              /\ ~TooLarge(total_size)
              /\ r.ok
              /\ follow => live.fate # "queued"
              /\ live' = [live EXCEPT !.queues[class_id] = r.queue,
                                      !.fate = IF follow THEN "queued" ELSE @,
                                      !.class_id = IF follow THEN class_id ELSE @,
                                      !.wait[class_id] = 0,
                                      !.passed_over = IF follow THEN FALSE ELSE @]
    /\ UNCHANGED <<station, msgqueue, txcall, power, burst, rx, ea, ap>>

\* scheduler_task, lines 707-713: one call of process_packets per period
LiveTick ==
    /\ live.pc = "run"
    /\ live.tick_due
    /\ LET a == LiveProcessPackets(live.queues)
       IN  live' = [live EXCEPT !.queues = a.queues,
                                !.tick_due = FALSE,
                                !.fate = FateAfter(@, a),
                                !.passed_over = @ \/ LeftBehind(live.fate, live.queues, a)]
    /\ UNCHANGED <<station, msgqueue, txcall, power, burst, rx, ea, ap>>

\* one scheduler period elapses after the tick of the period before
LiveAdvance ==
    /\ live.pc = "run"
    /\ ~live.tick_due
    /\ live' = [live EXCEPT !.queues = [c \in Classes |-> RebaseQueue(@[c])],
                            !.wait = [c \in Classes |->
                                        IF @[c] < MinPeriodTicks THEN @[c] + 1 ELSE @[c]],
                            !.tick_due = TRUE]
    /\ UNCHANGED <<station, msgqueue, txcall, power, burst, rx, ea, ap>>

NextLive == LiveSubmit \/ LiveTick \/ LiveAdvance

\* LiveTick is enabled exactly when the tick is due, and a LiveTick step is
\* the only step after which it is due no longer: weak fairness of LiveTick
\* is that the tick is not due for ever
TickRuns == []<>(~live.tick_due)

\* the clock advances (weak fairness of the period that elapses) and the
\* scheduler task runs in every period (weak fairness of its tick)
SpecLive ==
    InitLive /\ [][NextLive]_vars /\ WF_vars(LiveAdvance) /\ TickRuns

----------------------------------------------------------------------------
(* The station with random packets enabled and a count configured for the  *)
(* random class (terminal commands "random on" and "count 4 <n>"):         *)
(* class_periods[CLASS_RANDOM] is 1 and task_params[CLASS_RANDOM] is above *)
(* 0, so that packet_creator_task submits to the random class at each of   *)
(* its checks (lines 769-790) next to random_packet_task (lines 858-865).  *)

\* packet_creator_task submits to any of the four classes, random_packet_task
\* to the random class
SubmitShared ==
    \E p \in Producers :
        \E class_id \in (IF p = "creator" THEN Classes ELSE {CLASS_RANDOM}) :
            SubmitPrepare(p, class_id, packet_counts[class_id])

NextShared ==
    \/ Atomic(SubmitShared)
    \/ Atomic(Enqueue)
    \/ Atomic(TickStart)
    \/ Atomic(FindEarliest)
    \/ Atomic(AssembleClass)
    \/ Atomic(SendDataPacket)
    \/ Atomic(NoDataToTransmit)
    \/ Atomic(TransmitAny)
    \/ Atomic(CountTransmitted)
    \/ Atomic(AdvanceClock)

SpecShared == Init /\ [][NextShared]_vars

----------------------------------------------------------------------------
(* The access-point sender, src/c3_wifi_ap/main/softap_example_main.c:      *)
(* three classes, at most one sample per class and tick, and a control      *)
(* frame before the data frame.  Its constants and its queue functions are  *)
(* those of the station (lines 26-30 and 112-215).  The mutex is explicit:  *)
(* ap.mutex is its holder; a task takes it in one step, and runs its        *)
(* critical section and gives it back in the next.  The code after a        *)
(* critical section that touches task-local data only is part of the step   *)
(* of that section.  The main task is the only producer: it submits samples *)
(* and prints the statistics (lines 848-872); scheduler_submit_packet is a  *)
(* public function, and the element counts are those of app_main and one    *)
(* that makes a sample of 800 bytes.  The run starts between two ticks with *)
(* queues the earlier ticks have left: a tick whose control frame is not    *)
(* sent dequeues nothing (lines 470-474), so a head can be past its         *)
(* deadline.  Queue nodes are always allocated.                             *)

ApClasses == 0 .. AP_MAX_CLASSES - 1

\* scheduler_init, lines 291-293
ApClassTypes == <<DATA_TYPE_INT32, DATA_TYPE_FLOAT, DATA_TYPE_INT16>>

\* app_main, lines 848-853: the element counts of the test packets
ApTestCounts == <<10, 8, 10>>

\* the count arguments of scheduler_submit_packet
ApCounts(class_id) == {ApTestCounts[class_id + 1], LargeCount}

\* lines 381-392: the relative deadline of the class
ApClassDeadline(class_id) ==
    IF class_id = CLASS_1 THEN AP_DDL_1
    ELSE IF class_id = CLASS_2 THEN AP_DDL_2 ELSE AP_DDL_3

\* lines 353-380: the queue packet of a call, deadline aside
ApPacket(id, class_id, count) ==
    [id |-> id, class_id |-> class_id, deadline |-> 0,
     data_type |-> ApClassTypes[class_id + 1], data_count |-> count,
     size |-> U16(ElementSize(ApClassTypes[class_id + 1]) * count)]

\* queue_enqueue_front, lines 148-175
ap_queue_enqueue_front(queue, packet) ==
    IF Len(queue) >= MAX_QUEUE_SIZE
    THEN [ok |-> FALSE, queue |-> queue]
    ELSE [ok |-> TRUE, queue |-> <<packet>> \o queue]

\* lines 488-493: the sum of the sizes of the queue heads, a uint16_t
RECURSIVE ApHeadSizes(_, _)
ApHeadSizes(queues, i) ==
    IF i = AP_MAX_CLASSES THEN 0
    ELSE U16(queue_peek(queues[i + 1]).packet.size + ApHeadSizes(queues, i + 1))

\* lines 604-620: the counts of the control packet, uint8_t each
ApControlCounts(queues) ==
    [c \in ApClasses |-> U8(queue_peek(queues[c + 1]).packet.data_count)]

\* lines 448-456: the class of the earliest head deadline, -1 when no head
\* is earlier than UINT32_MAX
ApEarliestClass(queues) ==
    LET heads == {c \in ApClasses :
                     /\ queue_peek(queues[c + 1]).ok
                     /\ Lt32(queue_peek(queues[c + 1]).packet.deadline, UINT32_MAX)}
    IN  IF heads = {} THEN -1
        ELSE CHOOSE c \in heads :
                 \A d \in heads :
                     \/ Lt32(queues[c + 1][1].deadline, queues[d + 1][1].deadline)
                     \/ queues[c + 1][1].deadline = queues[d + 1][1].deadline /\ c <= d

\* process_packets has returned: the scheduler task sleeps until the next tick
ApReturn(st) ==
    [st EXCEPT !.pc = "idle", !.ticks = @ + 1,
               !.clock = Add32(@, SCHEDULER_CHECK_INTERVAL_MS)]

\* the head of the for loop of line 517: the class is done
ApNextClass(st) ==
    [st EXCEPT !.class_id = @ + 1,
               !.pc = IF st.class_id + 1 = AP_MAX_CLASSES THEN "send" ELSE "dequeue"]

ApNoFrame == [sent |-> FALSE, class_counts |-> [c \in ApClasses |-> 0], total_size |-> 0]

\* a queued sample of the class that an earlier tick has left
ApLeft(id, class_id, count, deadline) ==
    [ApPacket(id, class_id, count) EXCEPT !.deadline = deadline]

\* the queues at the start of the run
ApBacklogs ==
    LET fresh(c) == Add32(BOOT_DELAY_MS, ApClassDeadline(c) - SCHEDULER_CHECK_INTERVAL_MS)
        late == Add32(BOOT_DELAY_MS, -1)
    IN  { <<<<>>, <<>>, <<>>>>,
          <<<<ApLeft(1, 0, 10, fresh(0))>>, <<ApLeft(2, 1, 8, fresh(1))>>,
            <<ApLeft(3, 2, 10, fresh(2))>>>>,
          <<<<ApLeft(1, 0, 10, late)>>, <<ApLeft(2, 1, 8, fresh(1))>>, <<>>>>,
          <<<<ApLeft(1, 0, LargeCount, fresh(0))>>,
            <<ApLeft(2, 1, LargeCount, fresh(1))>>, <<>>>> }

\* the history: control is the counts of the control frame of the present
\* tick, control_sent tells that the radio took it, dequeues counts the
\* dequeues of the present tick, frame is the data frame the radio took in
\* the present tick, copy the last memcpy into the data buffer
InitAp ==
    /\ StationParked
    /\ txcall = Unused /\ power = Unused /\ burst = Unused /\ rx = Unused
    /\ ea = Unused /\ live = Unused
    /\ \E queues \in ApBacklogs :
          ap = [pc |-> "idle",
                mutex |-> "free",
                clock |-> BOOT_DELAY_MS,
                queues |-> queues,
                next_id |-> 4,
                main |-> [pc |-> "idle", packet |-> NoPacket],
                submits |-> 0,
                current_time |-> 0,
                buffer_size |-> 0,
                remaining_space |-> 0,
                class_id |-> 0,
                packet |-> NoPacket,
                class_counts |-> [c \in ApClasses |-> 0],
                packets_processed |-> 0,
                packets_transmitted |-> 0,
                deadline_misses |-> 0,
                ticks |-> 0,
                control |-> [c \in ApClasses |-> 0],
                control_sent |-> FALSE,
                dequeues |-> 0,
                frame |-> ApNoFrame,
                copy |-> [written |-> 0, size |-> 0]]

ApOthers == UNCHANGED <<station, msgqueue, txcall, power, burst, rx, ea, live>>

\* scheduler_task, lines 746-752, and lines 424-427: the tick starts
ApTickStart ==
    /\ ap.pc = "idle"
    /\ ap.ticks < MaxTicks
    /\ ap' = [ap EXCEPT !.pc = "peek",
                        !.current_time = ap.clock,
                        !.control = [c \in ApClasses |-> 0],
                        !.control_sent = FALSE,
                        !.dequeues = 0,
                        !.frame = ApNoFrame,
                        !.copy = [written |-> 0, size |-> 0]]
    /\ ApOthers

\* xSemaphoreTake(scheduler_ctx.mutex, portMAX_DELAY) by the scheduler task
ApSchedulerTake ==
    /\ ap.pc \in {"peek", "control", "size", "dequeue", "miss", "putback", "count",
                  "transmitted"}
    /\ ap.mutex = "free"
    /\ ap' = [ap EXCEPT !.mutex = "scheduler"]
    /\ ApOthers

\* the critical section of the scheduler task at pc that leaves st, ending
\* with xSemaphoreGive
ApLocked(pc, st) ==
    /\ ap.pc = pc
    /\ ap.mutex = "scheduler"
    /\ ap' = [st EXCEPT !.mutex = xSemaphoreGive("scheduler")]
    /\ ApOthers

\* lines 430-464: the peek at the heads; no sample and no earliest class
\* end the tick
ApPeek ==
    LET total_packets == Cardinality({c \in ApClasses : queue_peek(ap.queues[c + 1]).ok})
    IN  ApLocked("peek",
                 IF total_packets = 0 \/ ApEarliestClass(ap.queues) < 0
                 THEN ApReturn(ap)
                 ELSE [ap EXCEPT !.pc = "control"])

\* send_control_packet, lines 593-668, and lines 470-474: the counts of the
\* heads go to the control frame; the tick ends when the frame is not sent
ApControl ==
    \E ret_ok \in BOOLEAN :
        LET st == [ap EXCEPT !.control = ApControlCounts(ap.queues),
                             !.control_sent = ret_ok]
        IN  ApLocked("control",
                     IF ret_ok THEN [st EXCEPT !.pc = "size"] ELSE ApReturn(st))

\* lines 484-514: the sizes of the heads, and the buffer, which malloc
\* gives or refuses
ApSizeCalc ==
    \E malloc_ok \in BOOLEAN :
        LET total_data_size == ApHeadSizes(ap.queues, 0)
            buffer_size == IF total_data_size > MAX_TX_SIZE
                           THEN MAX_TX_SIZE ELSE total_data_size
        IN  ApLocked("size",
                     IF malloc_ok
                     THEN [ap EXCEPT !.pc = "dequeue",
                                     !.buffer_size = buffer_size,
                                     !.remaining_space = buffer_size,
                                     !.class_id = 0,
                                     !.class_counts = [c \in ApClasses |-> 0]]
                     ELSE ApReturn(ap))

\* lines 521-561: the dequeue of the head of the class and the tests that
\* follow it; a sample that is in time and fits is copied and announced
ApDequeue ==
    LET c == ap.class_id
        r == queue_dequeue(ap.queues[c + 1])
        st == [ap EXCEPT !.queues[c + 1] = r.queue,
                         !.packet = r.packet,
                         !.dequeues = IF r.ok THEN @ + 1 ELSE @]
    IN  ApLocked("dequeue",
                 IF ~r.ok THEN ApNextClass(st)
                 ELSE IF Gt32(st.current_time, r.packet.deadline)
                 THEN [st EXCEPT !.pc = "miss"]
                 ELSE IF DoesNotFit(r.packet, st.remaining_space)
                 THEN [st EXCEPT !.pc = "putback"]
                 ELSE [st EXCEPT !.pc = "count",
                                 !.copy = [written |-> st.buffer_size - st.remaining_space,
                                           size |-> r.packet.size],
                                 !.remaining_space = U16(@ - r.packet.size),
                                 !.class_counts[c] = U8(r.packet.data_count)])

\* lines 532-540: the miss is counted, and the loop goes on
ApMiss ==
    ApLocked("miss", ApNextClass([ap EXCEPT !.deadline_misses = @ + 1,
                                            !.packets_processed = @ + 1]))

\* lines 545-553: the sample goes back to the head of its queue
ApPutback ==
    LET c == ap.class_id
    IN  ApLocked("putback",
                 ApNextClass([ap EXCEPT !.queues[c + 1] =
                                 ap_queue_enqueue_front(@, ap.packet).queue]))

\* lines 563-566: the copied sample is counted
ApCount ==
    ApLocked("count", ApNextClass([ap EXCEPT !.packets_processed = @ + 1]))

\* lines 571-579 and send_data_packet: the frame goes to the radio when it
\* has data
ApSend ==
    /\ ap.pc = "send"
    /\ \E ret_ok \in BOOLEAN :
          LET actual_data_size == U16(ap.buffer_size - ap.remaining_space)
              frame == [sent |-> TRUE, class_counts |-> ap.class_counts,
                        total_size |-> actual_data_size]
          IN  ap' = IF actual_data_size > 0 /\ ret_ok
                    THEN [ap EXCEPT !.pc = "transmitted", !.frame = frame]
                    ELSE ApReturn(ap)
    /\ ApOthers

\* lines 577-586: the classes of the frame are counted
ApTransmitted ==
    LET classes == Cardinality({c \in ApClasses : ap.class_counts[c] > 0})
    IN  ApLocked("transmitted", ApReturn([ap EXCEPT !.packets_transmitted = @ + classes]))

\* scheduler_submit_packet up to its xSemaphoreTake, lines 344-399
ApSubmit ==
    /\ ap.main.pc = "idle"
    /\ ap.submits < MaxApSubmits
    /\ \E class_id \in ApClasses :
          \E count \in ApCounts(class_id) :
              LET packet == [ApPacket(ap.next_id, class_id, count) EXCEPT
                                !.deadline = Add32(ap.clock, ApClassDeadline(class_id))]
              IN  ap' = IF TooLarge(packet.size)
                        THEN [ap EXCEPT !.submits = @ + 1]
                        ELSE [ap EXCEPT !.submits = @ + 1,
                                        !.next_id = @ + 1,
                                        !.main = [pc |-> "enqueue", packet |-> packet]]
    /\ ApOthers

\* app_main, line 861: the main task calls print_scheduler_stats
ApStatsCall ==
    /\ ap.main.pc = "idle"
    /\ ap.submits < MaxApSubmits
    /\ ap' = [ap EXCEPT !.submits = @ + 1, !.main = [pc |-> "stats", packet |-> NoPacket]]
    /\ ApOthers

\* xSemaphoreTake(scheduler_ctx.mutex, portMAX_DELAY) by the main task,
\* lines 401 and 798
ApMainTake ==
    /\ ap.main.pc \in {"enqueue", "stats"}
    /\ ap.mutex = "free"
    /\ ap' = [ap EXCEPT !.mutex = "main"]
    /\ ApOthers

\* lines 402-403: the enqueue and the give
ApEnqueue ==
    /\ ap.main.pc = "enqueue"
    /\ ap.mutex = "main"
    /\ LET c == ap.main.packet.class_id
       IN  ap' = [ap EXCEPT !.queues[c + 1] = queue_enqueue(@, ap.main.packet).queue,
                            !.main = [pc |-> "idle", packet |-> NoPacket],
                            !.mutex = xSemaphoreGive("main")]
    /\ ApOthers

\* print_scheduler_stats, lines 802-817: the reads and the give
ApStats ==
    /\ ap.main.pc = "stats"
    /\ ap.mutex = "main"
    /\ ap' = [ap EXCEPT !.main = [pc |-> "idle", packet |-> NoPacket],
                        !.mutex = xSemaphoreGive("main")]
    /\ ApOthers

NextAp ==
    \/ ApTickStart \/ ApSchedulerTake \/ ApPeek \/ ApControl \/ ApSizeCalc
    \/ ApDequeue \/ ApMiss \/ ApPutback \/ ApCount \/ ApSend \/ ApTransmitted
    \/ ApSubmit \/ ApStatsCall \/ ApMainTake \/ ApEnqueue \/ ApStats

SpecAp == InitAp /\ [][NextAp]_vars

----------------------------------------------------------------------------
(* The three senders with the mutex explicit: a run is a run of the 4-class *)
(* station, of the energy-aware station or of the access-point sender.      *)
(* Fair scheduling: a task that can run does run.  A task that holds the    *)
(* mutex goes on to its give, and a task waiting in xSemaphoreTake takes    *)
(* the mutex when it stays free; xSemaphoreGive hands the mutex to no one,  *)
(* so that the task that gave it may take it again before a waiting task    *)
(* of lower priority has run.                                               *)

StationSteps ==
    \/ Outside(SubmitCreated)
    \/ ProducerTake
    \/ LockedEnqueue
    \/ Outside(TickStart)
    \/ SchedulerTake
    \/ Locked("scheduler", FindEarliest)
    \/ Locked("scheduler", AssembleClass)
    \/ Locked("scheduler", SendDataPacket)
    \/ Outside(NoDataToTransmit)
    \/ Outside(TransmitAny)
    \/ Locked("scheduler", CountTransmitted)
    \/ Outside(AdvanceClock)

InitSenders == Init \/ InitEa \/ InitAp

NextSenders ==
    \/ PartsUnused /\ StationSteps
    \/ ea.pc # "unused" /\ NextEa
    \/ ap.pc # "unused" /\ NextAp

\* the holder of the mutex of the sender that runs
MutexHolder ==
    IF ea.pc # "unused" THEN ea.mutex
    ELSE IF ap.pc # "unused" THEN ap.mutex ELSE mutex

\* a producer task enters the critical section it waits for
ProducerTakes ==
    \/ PartsUnused /\ ProducerTake
    \/ ea.pc # "unused" /\ EaProducerTake
    \/ ap.pc # "unused" /\ ApMainTake

\* a producer task runs its critical section and gives the mutex
ProducerGives ==
    \/ PartsUnused /\ LockedEnqueue
    \/ ea.pc # "unused" /\ EaSubmit
    \/ ap.pc # "unused" /\ (ApEnqueue \/ ApStats)

\* the scheduler task runs its critical sections to their give
SchedulerGives == []<>(MutexHolder # "scheduler")

SpecSenders ==
    /\ InitSenders /\ [][NextSenders]_vars
    /\ WF_vars(ProducerTakes) /\ WF_vars(ProducerGives) /\ SchedulerGives

----------------------------------------------------------------------------
(* Properties                                                              *)

\* the bytes of a sequence of chunks
RECURSIVE SumLen(_)
SumLen(chunks) ==
    IF chunks = <<>> THEN 0 ELSE chunks[1].len + SumLen(Tail(chunks))

\* the elements of the class-c chunks of a sequence of chunks
RECURSIVE SumCount(_, _)
SumCount(chunks, c) ==
    IF chunks = <<>> THEN 0
    ELSE (IF chunks[1].class_id = c THEN chunks[1].data_count ELSE 0)
         + SumCount(Tail(chunks), c)

\* the class-c chunks of a sequence of chunks
OfClass(chunks, c) == SelectSeq(chunks, LAMBDA ch : ch.class_id = c)

\* C1: FIFO within a class.  Sample ids are handed out in enqueue order, so
\* of two samples of one class the one enqueued first has the smaller id.
\* Every sample of a frame has a larger id than every sample of its class in
\* any earlier frame, and within the frame's payload the samples of a class
\* lie in increasing id order at increasing offsets.
C1_FifoWithinClass ==
    last_frame.sent =>
        LET payload == last_frame.payload
        IN  \A i \in DOMAIN payload :
              /\ payload[i].id > last_frame.prev_upto[payload[i].class_id]
              /\ \A j \in DOMAIN payload :
                    (payload[j].class_id = payload[i].class_id
                        /\ payload[j].id < payload[i].id)
                    => payload[j].off + payload[j].len <= payload[i].off

\* C1 case: a frame carries two samples of one class, after an earlier frame
\* carried a sample of that class too, or simply two samples of one class.
C1_Witness ==
    /\ last_frame.sent
    /\ \E i, j \in DOMAIN last_frame.payload :
          /\ i # j
          /\ last_frame.payload[i].class_id = last_frame.payload[j].class_id

\* C2: byte cap.  Every frame handed to the radio has a payload of 1 to 1400
\* bytes, header.total_size is that payload length, the frame is
\* 24 + sizeof(header) + total_size bytes long, and the payload is all that
\* the tick copied (so a tick that copied nothing hands over nothing).
C2_ByteCap ==
    /\ last_frame.sent =>
          /\ SumLen(last_frame.payload) >= 1
          /\ SumLen(last_frame.payload) <= 1400
          /\ last_frame.header.total_size = SumLen(last_frame.payload)
          /\ last_frame.packet_size = 24 + SizeofHeader + last_frame.header.total_size
    /\ sched.pc \in {"tx", "count"} =>
          /\ sched.data_buffer # <<>>
          /\ SumLen(sched.data_buffer) = sched.header.total_size

\* C2 case: a frame filled beyond the 100-byte margin was handed over.
C2_Witness ==
    /\ last_frame.sent
    /\ last_frame.header.total_size > 1300
    /\ Len(last_frame.payload) >= 2

\* C3: class order.  The payload of a frame is the concatenation of its
\* samples: each sample starts where the one before it ends, the first at
\* offset 0, the classes never decrease along the payload, and within a class
\* the samples are in dequeue (id) order.
C3_ClassOrder ==
    last_frame.sent =>
        LET payload == last_frame.payload
        IN  /\ \A i \in DOMAIN payload :
                  payload[i].off = SumLen(SubSeq(payload, 1, i - 1))
            /\ \A i, j \in DOMAIN payload :
                  i < j =>
                    /\ payload[i].class_id <= payload[j].class_id
                    /\ payload[i].class_id = payload[j].class_id
                          => payload[i].id < payload[j].id

\* C3 case: one frame with samples of two different classes, entered in the
\* queues in the opposite order (the later class first).
C3_Witness ==
    /\ last_frame.sent
    /\ \E i, j \in DOMAIN last_frame.payload :
          /\ i < j
          /\ last_frame.payload[i].class_id < last_frame.payload[j].class_id
          /\ last_frame.payload[i].id > last_frame.payload[j].id

\* C4: deadline discipline.  With now the time the tick read at its start, a
\* sample the tick discarded has now > deadline, and a sample the tick copied
\* (and so every sample of an emitted frame) has now <= deadline.
C4_DeadlineDiscipline ==
    /\ \A m \in sched.missed :
          m.now = sched.current_time /\ Gt32(m.now, m.deadline)
    /\ \A i \in DOMAIN sched.data_buffer :
          ~Gt32(sched.current_time, sched.data_buffer[i].deadline)
    /\ last_frame.sent =>
          \A i \in DOMAIN last_frame.payload :
              ~Gt32(last_frame.now, last_frame.payload[i].deadline)

\* C4 case: one tick discarded a sample and copied a sample whose deadline is
\* exactly now.
C4_Witness ==
    /\ sched.pc = "send"
    /\ sched.missed # {}
    /\ \E i \in DOMAIN sched.data_buffer :
          sched.data_buffer[i].deadline = sched.current_time

\* the samples the running tick has copied to its buffer and not yet handed
\* to the radio
SamplesInAssembly ==
    IF sched.pc \in {"assemble", "send", "tx"} THEN Len(sched.data_buffer) ELSE 0

C8_OversizeRejected ==
    /\ \A p \in Producers :
          /\ prod[p].ret = "ESP_ERR_INVALID_ARG" =>
                prod[p].count * ElementSize(class_types[prod[p].class_id]) > 1400
          /\ prod[p].pc = "enqueue" =>
                /\ prod[p].count * ElementSize(prod[p].packet.data_type) <= 1400
                /\ prod[p].packet.size
                      = prod[p].count * ElementSize(prod[p].packet.data_type)
    /\ \A c \in Classes : \A i \in DOMAIN packet_queues[c] :
          LET packet == packet_queues[c][i]
          IN  /\ packet.size = packet.data_count * ElementSize(packet.data_type)
              /\ packet.size <= 1400

C10_TransmitFailure ==
    /\ [][sched.pc = "tx" /\ last_frame'.sent /\ ~last_frame'.ret_ok =>
            /\ sched'.pc = "idle"
            /\ UNCHANGED <<packet_queues, ctx_stats>>]_vars
    /\ [][packets_transmitted' # packets_transmitted =>
            last_frame.sent /\ last_frame.ret_ok]_vars
    /\ [](last_frame.sent =>
            \A i \in DOMAIN last_frame.payload :
                last_frame.payload[i].id
                    > last_frame.prev_upto[last_frame.payload[i].class_id])
    /\ [](\A c \in Classes : \A i \in DOMAIN packet_queues[c] :
                packet_queues[c][i].id > emitted_upto[c])

\* C10 case: the radio write of the first frame failed and its tick is over.
C10_Witness ==
    /\ last_frame.sent
    /\ ~last_frame.ret_ok
    /\ sched.pc = "idle"
    /\ samples_emitted > 0
    /\ packets_transmitted = 0

\* C11: mutex serialisation.  Every step that changes a class queue, a
\* counter or another field of scheduler_ctx, or the class configuration, is
\* taken by a task that holds the mutex when it takes the step.
C11_WritesUnderMutex ==
    [][(packet_queues' # packet_queues \/ ctx_stats' # ctx_stats
            \/ ctx_config' # ctx_config) =>
         /\ mutex # "free"
         /\ sched' # sched => mutex = "scheduler"
         /\ \A p \in Producers : prod'[p] # prod[p] => mutex = p
         /\ app' = app]_vars

Progress(s) ==
    CASE s.pc = "find" -> 1
      [] s.pc = "assemble" -> 2 + s.class_id
      [] s.pc = "send" -> 2 + MAX_CLASSES
      [] s.pc = "tx" -> 3 + MAX_CLASSES
      [] s.pc = "count" -> 4 + MAX_CLASSES
      [] OTHER -> 5 + MAX_CLASSES

\* C13: run to completion.  Every step of a running tick moves process_packets
\* strictly forward in program order, so a tick ends after at most
\* 5 + MAX_CLASSES steps, and the loop of a class enters its body at most
\* once per sample the queue held when the class was entered, every entry
\* but at most the last removing one sample.
C13_RunToCompletion ==
    /\ [][sched.pc # "idle" /\ sched' # sched =>
            Progress(sched') > Progress(sched)]_vars
    /\ [][sched.pc = "assemble" /\ sched' # sched =>
            LET c == sched.class_id
                removed == Len(packet_queues[c]) - Len(packet_queues'[c])
            IN  /\ removed >= 0
                /\ sched'.iterations <= Len(packet_queues[c])
                /\ removed <= sched'.iterations
                /\ sched'.iterations <= removed + 1
                /\ \A d \in Classes \ {c} : packet_queues'[d] = packet_queues[d]]_vars

\* C13 case: the loop of class 1 was entered with 50 samples queued and left
\* through the nearly-full break after 33 entries.
C13_Witness ==
    /\ sched.pc = "assemble"
    /\ sched.class_id = 1
    /\ sched.iterations = 33
    /\ Len(packet_queues[CLASS_1]) = 17

\* the scheduler is about to run the class-1 loop on 50 unexpired 40-byte
\* samples, the other queues being empty
S2Entered ==
    /\ sched.pc = "assemble"
    /\ sched.class_id = CLASS_1
    /\ Len(packet_queues[CLASS_1]) = 50
    /\ \A i \in DOMAIN packet_queues[CLASS_1] :
          /\ packet_queues[CLASS_1][i].size = 40
          /\ ~Gt32(sched.current_time, packet_queues[CLASS_1][i].deadline)
    /\ \A c \in Classes \ {CLASS_1} : packet_queues[c] = <<>>

\* the class-1 loop entered as in S2Entered takes exactly the first n samples
\* and leaves the other 50 - n queued in their order; and the frame handed to
\* the radio carries what the tick assembled
S2Takes(n) ==
    /\ S2Entered /\ sched' # sched =>
          /\ Len(sched'.data_buffer) = n
          /\ \A i \in 1 .. n : sched'.data_buffer[i].id = packet_queues[CLASS_1][i].id
          /\ packet_queues'[CLASS_1] = SubSeq(packet_queues[CLASS_1], n + 1, 50)
    /\ sched.pc = "tx" /\ last_frame'.sent =>
          /\ last_frame'.payload = sched.data_buffer
          /\ last_frame' # last_frame

\* C14 as stated: in scenario S2 the triggering tick emits one frame with
\* exactly floor((1400 - H) / 40) class-1 samples, H the size of the
\* application header, and the samples not taken stay queued in FIFO order.
C14_S2TakesFloor ==
    [][S2Takes((1400 - SizeofHeader) \div 40)]_vars

\* C14 amended: in scenario S2 the triggering tick emits one frame with
\* exactly 33 class-1 samples, the loop stopping once fewer than 100 bytes of
\* the 1400-byte buffer remain, and the 17 samples not taken stay queued in
\* FIFO order.
C14_S2Takes33 ==
    [][S2Takes(33)]_vars

\* C14 case: a 51st submit was rejected, the frame with 33 samples was handed
\* to the radio and 17 samples are still queued.
C14_Witness ==
    /\ prod["creator"].ret = "ESP_FAIL"
    /\ last_frame.sent
    /\ Len(last_frame.payload) = 33
    /\ last_frame.payload[33].id = 33
    /\ Len(packet_queues[CLASS_1]) = 17
    /\ packet_queues[CLASS_1][1].id = 34

\* the scheduler is about to run the loop of class sched.class_id, whose one
\* sample is the only sample queued anywhere and has deadline < now; nothing
\* was copied so far
S3Entered ==
    /\ sched.pc = "assemble"
    /\ Len(packet_queues[sched.class_id]) = 1
    /\ Gt32(sched.current_time, packet_queues[sched.class_id][1].deadline)
    /\ \A c \in Classes \ {sched.class_id} : packet_queues[c] = <<>>
    /\ sched.data_buffer = <<>>

\* C15: in scenario S3 (the only queued sample has deadline < now) the tick
\* dequeues the sample, deadline_misses and packets_processed each increase by
\* one, packets_transmitted is unchanged, and the tick that copied nothing
\* hands no frame to the radio.
C15_S3MissOnly ==
    /\ [][S3Entered /\ sched' # sched =>
            /\ packet_queues'[sched.class_id] = <<>>
            /\ deadline_misses' = Add32(deadline_misses, 1)
            /\ packets_processed' = Add32(packets_processed, 1)
            /\ packets_transmitted' = packets_transmitted
            /\ sched'.data_buffer = <<>>
            /\ sched'.remaining_space = MAX_TX_SIZE
            /\ Cardinality(sched'.missed) = Cardinality(sched.missed) + 1]_vars
    /\ [][sched.pc = "send" /\ sched.data_buffer = <<>> /\ sched' # sched =>
            /\ sched' = SchedIdle
            /\ ~last_frame'.sent
            /\ packets_transmitted' = packets_transmitted]_vars

\* C15 case: the one sample ever submitted was dropped as a miss by a tick
\* that ended without a frame.
C15_Witness ==
    /\ sched.pc = "idle"
    /\ next_id = 2
    /\ \A c \in Classes : packet_queues[c] = <<>>
    /\ deadline_misses = 1
    /\ packets_processed = 1
    /\ packets_transmitted = 0
    /\ ~last_frame.sent
    /\ samples_emitted = 0

\* the classes with at least one sample in the frame handed to the radio
Contributors(frame) ==
    {c \in Classes : \E i \in DOMAIN frame.payload : frame.payload[i].class_id = c}

\* C16: after each successfully transmitted frame packets_transmitted
\* increases by exactly the number of classes that contributed at least one
\* sample to the frame, whatever the sample and element counts that fit in
\* 1400 bytes; it changes at no other step.
C16_TransmittedCountsContributors ==
    /\ [][sched.pc = "count" /\ sched' # sched =>
            packets_transmitted' =
                Add32(packets_transmitted, Cardinality(Contributors(last_frame)))]_vars
    /\ [][packets_transmitted' # packets_transmitted => sched.pc = "count"]_vars

\* C17: the timestamp in the header of every frame handed to the radio is
\* the now of the tick that assembled it, also when the clock advances while
\* the tick is running.
C17_TimestampIsTickNow ==
    last_frame.sent => last_frame.header.timestamp = last_frame.now

\* a - b modulo 2^32, read as a signed 32-bit difference
Sub32(a, b) ==
    IF b = -INT32_MAX - 1 THEN Add32(Add32(a, INT32_MAX), 1) ELSE Add32(a, -b)

\* instant a is later than instant b on the wrapping 32-bit clock
After32(a, b) == Sub32(a, b) > 0

\* C18: deadlines are now + relative deadline modulo 2^32 and are compared
\* modulo 2^32: a sample is counted as a miss only at a tick later than its
\* deadline on the wrapping clock, also when the deadline value wrapped past
\* 2^32, and the tick assembles a frame exactly when the deadline of some
\* queue head is not later than now + threshold on the wrapping clock, also
\* when that sum wrapped.
C18_DeadlineWrapAround ==
    /\ [](\A c \in Classes : \A i \in DOMAIN packet_queues[c] :
            \E rel \in {class_deadlines[d] : d \in Classes} :
                Sub32(packet_queues[c][i].deadline, rel) \in
                    {Add32(ClockBeforeWrap, k * SCHEDULER_CHECK_INTERVAL_MS) :
                        k \in 0 .. MaxClockSteps})
    /\ [](\A m \in sched.missed : After32(m.now, m.deadline))
    /\ [][sched.pc = "find" /\ sched' # sched =>
            (sched'.pc = "assemble" <=>
                \E c \in Classes :
                    /\ packet_queues[c] # <<>>
                    /\ ~After32(Head(packet_queues[c]).deadline,
                                Add32(sched.current_time, processing_threshold)))]_vars

\* C19: after any sequence of calls of queue_enqueue, queue_enqueue_front,
\* queue_dequeue and queue_peek, successful or failing, 0 <= count <= 50, and
\* count is the number of nodes in the list.
C19_QueueCapacity ==
    /\ 0 <= msgq.count
    /\ msgq.count <= 50
    /\ msgq.count = Len(Content(msgq))
    /\ msgq.count = Cardinality({n \in Nodes : msgq.mem[n].used})

\* C19 case: both insertions were refused on a queue of 50 packets, after a
\* call that took one packet out and a call that put one in.
C19_Witness ==
    /\ msgq.count = 50
    /\ msgq_call.calls = 4
    /\ msgq_call.op = "enqueue_front" /\ ~msgq_call.ret
    /\ msgq_call.prev_op = "enqueue" /\ ~msgq_call.prev_ret
    /\ Len(msgq_call.before) = 50
    /\ msgq_call.before[50] > 50

\* C20: the queue laws of msgqueue.c, on the packets of the queue before
\* (msgq_call'.before) and after (Content(msgq')) each call:
\*   a successful queue_enqueue(x) appends x, and a successful queue_dequeue
\*   returns the head and leaves the rest, so packets come out in the order
\*   of their insertion;
\*   a successful queue_enqueue_front(x) followed at once by queue_dequeue
\*   returns x and restores the content and order before the two calls;
\*   queue_peek returns the packet queue_dequeue would return and leaves the
\*   queue unchanged;
\*   queue_dequeue and queue_peek on an empty queue return false and change
\*   nothing;
\*   a failing insertion changes nothing.
C20_QueueLaws ==
    [][msgq_call' # msgq_call =>
        LET call == msgq_call'
            before == call.before
            after == Content(msgq')
        IN  /\ before = Content(msgq)
            /\ call.op = "enqueue" /\ call.ret => after = Append(before, call.arg)
            /\ call.op = "enqueue_front" /\ call.ret => after = <<call.arg>> \o before
            /\ call.op \in {"enqueue", "enqueue_front"} /\ ~call.ret => msgq' = msgq
            /\ call.op = "dequeue" =>
                  IF before = <<>>
                  THEN ~call.ret /\ msgq' = msgq
                  ELSE call.ret /\ call.out = Head(before) /\ after = Tail(before)
            /\ call.op = "dequeue" /\ msgq_call.op = "enqueue_front" /\ msgq_call.ret =>
                  /\ call.ret
                  /\ call.out = msgq_call.arg
                  /\ after = msgq_call.before
            /\ call.op = "peek" =>
                  /\ msgq' = msgq
                  /\ call.ret = msgqueue_dequeue(msgq).ret
                  /\ call.ret => call.out = msgqueue_dequeue(msgq).packet
                  /\ before = <<>> => ~call.ret]_vars

\* C20 case: a packet put at the front of a queue of 49 enqueued packets was
\* dequeued at once, after an enqueue at the back and a peek.
C20_Witness ==
    /\ msgq_call.op = "dequeue" /\ msgq_call.ret
    /\ msgq_call.prev_op = "enqueue_front" /\ msgq_call.prev_ret
    /\ msgq_call.calls = 4
    /\ msgq_call.out = Head(msgq_call.before)
    /\ msgq_call.out > 50
    /\ Len(msgq_call.before) = 50
    /\ msgq_call.before[50] > 50
    /\ Content(msgq) = Tail(msgq_call.before)

\* the 6 bytes of a buffer from offset off
AddressAt(buffer, off) == [i \in 0 .. 5 |-> buffer[off + i]]

\* the frame control, duration and sequence control bytes of every frame
\* handed to the radio
FixedMacBytes(buffer) ==
    /\ buffer[0] = 8
    /\ buffer[1] = 1
    /\ buffer[2] = 0 /\ buffer[3] = 0
    /\ buffer[22] = 0 /\ buffer[23] = 0

\* C21 as stated: every frame of the station sender has byte 0 = 0x08,
\* byte 1 = 0x01, zero duration and sequence bytes, and when the AP record
\* cannot be obtained destination, source and BSSID are all FF:FF:FF:FF:FF:FF.
C21_AllAddressesBroadcast ==
    txcall.pc \in {"tx", "returned"} /\ txcall.out # Unused =>
        /\ FixedMacBytes(txcall.out.packet_buffer)
        /\ ~txcall.in.ap_info1.ok /\ ~txcall.in.ap_info2.ok =>
              /\ AddressAt(txcall.out.packet_buffer, 4) = BroadcastAddr
              /\ AddressAt(txcall.out.packet_buffer, 10) = BroadcastAddr
              /\ AddressAt(txcall.out.packet_buffer, 16) = BroadcastAddr

\* C21 amended: every frame of the station sender has byte 0 = 0x08,
\* byte 1 = 0x01, zero duration and sequence bytes and the station's own MAC
\* as source; the destination is FF:FF:FF:FF:FF:FF when the first read of
\* the AP record fails and the BSSID field is FF:FF:FF:FF:FF:FF when the
\* second read fails, each being the AP's BSSID otherwise.
C21_MacHeader ==
    txcall.pc \in {"tx", "returned"} /\ txcall.out # Unused =>
        /\ FixedMacBytes(txcall.out.packet_buffer)
        /\ AddressAt(txcall.out.packet_buffer, 10) = txcall.in.mac
        /\ AddressAt(txcall.out.packet_buffer, 4) =
              (IF txcall.in.ap_info1.ok THEN txcall.in.ap_info1.bssid ELSE BroadcastAddr)
        /\ AddressAt(txcall.out.packet_buffer, 16) =
              (IF txcall.in.ap_info2.ok THEN txcall.in.ap_info2.bssid ELSE BroadcastAddr)

\* C21 case: a frame was handed to the radio after both reads of the AP
\* record failed.
C21_Witness ==
    /\ txcall.pc = "returned"
    /\ txcall.ret = "ESP_OK"
    /\ ~txcall.in.ap_info1.ok /\ ~txcall.in.ap_info2.ok
    /\ AddressAt(txcall.out.packet_buffer, 4) = BroadcastAddr
    /\ AddressAt(txcall.out.packet_buffer, 10) = StaMac

\* the four discrete power levels
PowerLevels == {TX_POWER_MIN, TX_POWER_LOW, TX_POWER_MEDIUM, TX_POWER_HIGH}

\* the power stored in the configuration that who evaluates
StoredPower(who) == IF who = "task" THEN power.task_config ELSE power.config

\* C22: after each evaluation with auto_tx_power enabled and an RSSI reading
\* r, the stored power is MIN if r >= RSSI_EXCELLENT, LOW if
\* RSSI_GOOD <= r < RSSI_EXCELLENT, MEDIUM if RSSI_FAIR <= r < RSSI_GOOD and
\* HIGH otherwise, and the radio was instructed (with that power) exactly
\* when it differs from the power stored before.
C22_PowerMapping ==
    power.last.by # "none" /\ power.last.ok =>
        LET r == power.last.rssi
            stored == StoredPower(power.last.by)
        IN  /\ power.auto_tx_power
            /\ r >= RSSI_EXCELLENT => stored = TX_POWER_MIN
            /\ RSSI_GOOD <= r /\ r < RSSI_EXCELLENT => stored = TX_POWER_LOW
            /\ RSSI_FAIR <= r /\ r < RSSI_GOOD => stored = TX_POWER_MEDIUM
            /\ r < RSSI_FAIR => stored = TX_POWER_HIGH
            /\ power.last.set <=> stored # power.last.before
            /\ power.last.set => power.radio = stored

\* C22 case: the task read an rssi of exactly RSSI_EXCELLENT with HIGH stored
\* and instructed the radio to MIN.
C22_Witness ==
    /\ power.last.by = "task" /\ power.last.ok
    /\ power.last.rssi = RSSI_EXCELLENT
    /\ power.last.before = TX_POWER_HIGH
    /\ power.last.set
    /\ power.task_config = TX_POWER_MIN
    /\ power.radio = TX_POWER_MIN

\* C23 as stated: in every reachable state the controller's current power is
\* one of MIN, LOW, MEDIUM, HIGH, for every start-up tx_power in 8 .. 84.
C23_PowerIsLevel ==
    /\ power.task_config \in PowerLevels
    /\ power.config \in PowerLevels

\* C23 amended: the controller's current power is one of MIN, LOW, MEDIUM,
\* HIGH from its first evaluation with an RSSI reading onward; until then it
\* is the start-up tx_power, a value in 8 .. 84.
C23_PowerIsLevelOnceAdjusted ==
    /\ power.start \in 8 .. 84
    /\ \A who \in {"task", "event"} :
          IF who \in power.adjusted
          THEN StoredPower(who) \in PowerLevels
          ELSE StoredPower(who) = power.start

\* C23 case: from a start-up tx_power of 50 the task moved to a level on its
\* first reading and kept it when the next read of the AP record failed.
C23_Witness ==
    /\ power.start = 50
    /\ power.evals = 2
    /\ power.adjusted = {"task"}
    /\ power.last.by = "task" /\ ~power.last.ok
    /\ power.task_config = TX_POWER_HIGH
    /\ power.config = 50

\* the instant an activation is measured from: the start of the task before
\* the first burst, the round that ended the previous burst afterwards
ActivationReference == IF burst.exits = 0 THEN burst.task_start ELSE burst.left_at

\* the burst mode after a round of the task, when activations are measured from ref
BurstCycleFrom(ref) ==
    burst.pc = "loop" =>
        LET config == burst.config
            t == burst.clock
        IN  /\ ~burst.burst_mode =>
                  (burst'.burst_mode <=>
                      /\ config.random_packet_burst_enabled
                      /\ Gt32(t, Add32(ref, config.random_packet_burst_period)))
            /\ burst.burst_mode =>
                  (burst'.burst_mode <=>
                      ~Gt32(t, Add32(burst.entered_at, BURST_DURATION)))

\* C24 as stated: with burst enabled the producer enters burst mode in the
\* round whose time exceeds the start of the task by more than the burst
\* period, every activation being measured from the start of the task; it
\* leaves burst mode in the round whose time exceeds the entry by more than
\* 5000 ms; with burst disabled it never enters burst mode.
C24_ActivationFromTaskStart == [][BurstCycleFrom(burst.task_start)]_vars

\* C24, amended: as above, but only the first activation is measured from
\* the start of the task; every later one is measured from the round that
\* ended the previous burst. Sums are uint32_t sums and the comparisons
\* unsigned ones.
C24_BurstCycle == [][BurstCycleFrom(ActivationReference)]_vars

\* a second burst has started, one burst period and a round after the first
\* one ended
C24_Witness ==
    /\ burst.pc = "loop"
    /\ burst.burst_mode
    /\ burst.entries = 2
    /\ burst.exits = 1
    /\ burst.entered_at =
          Add32(burst.left_at, burst.config.random_packet_burst_period + POLL_MS)

\* C25: while the producer is in burst mode, the next submission comes no
\* later than the burst interval plus one polling step after the previous
\* one, or after the start of the burst
C25_BurstDensity ==
    (burst.pc = "loop" /\ burst.burst_mode) =>
        Sub32(burst.clock, burst.since)
            <= burst.config.random_packet_burst_interval + POLL_MS

SentSlice(class_counts, c) ==
    LET widths == <<4, 4, 2, 1>>
        off == IF c = 0 THEN 0
               ELSE IF c = 1 THEN class_counts[1] * 4
               ELSE IF c = 2 THEN class_counts[1] * 4 + class_counts[2] * 4
               ELSE class_counts[1] * 4 + class_counts[2] * 4 + class_counts[3] * 2
    IN  [i \in 1 .. class_counts[c + 1] * widths[c + 1] |-> (1 + 7 * (off + i - 1)) % 256]

\* C27: a well-formed frame whose timestamp lies in the future of the
\* receiver clock, or whose latency exceeds 30000 ms, is reported with
\* latency 0, the clock-anomaly counter goes up by one, and the data of
\* every class in the frame is delivered.
C27_LatencyClamp ==
    [][(/\ rx'.frames = rx.frames + 1
        /\ rx'.last.outcome = "delivered"
        /\ ~rx'.last.truncated
        /\ rx'.last.sent.now >= 0
        /\ \/ rx'.last.receive_clock_ms < rx'.last.sent.now
           \/ rx'.last.receive_clock_ms - rx'.last.sent.now > LATENCY_SANITY_MAX)
       => /\ rx'.last.latency = 0
          /\ rx'.clock_anomalies = rx.clock_anomalies + 1
          /\ rx'.data_packets = rx.data_packets + 1
          /\ \A c \in Classes :
                rx'.last.delivered[c] = SentSlice(rx'.last.sent.class_counts, c)]_vars

\* C27 case: the frame stamped 1000 was received at receiver clock 500
C27_Witness ==
    /\ rx.pc = "listening"
    /\ rx.last.outcome = "delivered"
    /\ rx.last.header.timestamp = 1000
    /\ rx.last.receive_clock_ms = 500
    /\ rx.last.latency = 0
    /\ rx.clock_anomalies = 1
    /\ Len(rx.last.delivered[CLASS_1]) = 40

\* C28: a sample that does not fit is put back and left for the next batch,
\* and process_packets returns: no dequeue of a call finds the queue, the
\* sample and the remaining space that the dequeue before it found, which
\* is the state the loop would then find again and again.
C28_PutbackRunsToCompletion == ~ea.spun

\* C29: the putback of a sample that did not fit leaves it at the head of
\* its queue, whatever the producers enqueued since it was dequeued.
C29_PutbackKeepsSample ==
    [][(ea.pc = "putback" /\ ea'.pc # "putback") =>
          LET p == msgqueue_peek(ea'.queues[ea.class_id])
          IN  p.ret /\ p.packet = ea.packet]_vars

\* every queue is empty, or the deadline at the head of every non-empty
\* queue is greater than current_time + processing_threshold (uint32_t)
NothingUrgent(current_time) ==
    \A c \in Classes :
        Len(packet_queues[c]) > 0 =>
            Gt32(Head(packet_queues[c]).deadline,
                 Add32(current_time, processing_threshold))

\* C30: a tick that finds all queues empty, or the earliest head deadline
\* greater than now + processing_threshold, ends where it evaluated the
\* queues; neither that step nor the step that started the tick dequeues a
\* sample, changes a queue or the processed, transmitted and miss counters,
\* or hands a frame to the radio.
C30_IdleTick ==
    [][/\ (sched.pc = "idle" /\ sched'.pc = "find") =>
            /\ UNCHANGED <<packet_queues, packets_processed, packets_transmitted,
                           deadline_misses, samples_emitted, emitted_upto>>
            /\ ~last_frame'.sent
       /\ (sched.pc = "find" /\ sched'.pc # "find" /\ NothingUrgent(sched.current_time)) =>
            /\ sched'.pc = "idle"
            /\ UNCHANGED <<packet_queues, packets_processed, packets_transmitted,
                           deadline_misses, samples_emitted, emitted_upto>>
            /\ ~last_frame'.sent]_vars

\* C30 case: the tick at the present clock has ended, a sample is queued
\* whose deadline is not yet within the threshold, and nothing was
\* processed, missed or sent
C30_Witness ==
    /\ sched.pc = "idle"
    /\ ~tick_due
    /\ current_time_ms = clock
    /\ \E c \in Classes : Len(packet_queues[c]) > 0
    /\ NothingUrgent(current_time_ms)
    /\ packets_processed = 0
    /\ deadline_misses = 0
    /\ packets_transmitted = 0
    /\ ~last_frame.sent

----------------------------------------------------------------------------
(* Liveness of the station scheduler *)

\* the followed sample sits in its class queue
Accepted == live.pc = "run" /\ live.fate = "queued"

\* the followed sample was copied into a frame or counted as a deadline miss
Resolved == live.pc = "run" /\ live.fate \in {"emitted", "missed"}

----------------------------------------------------------------------------
(* Conservation of samples *)

\* C32: whenever scheduler_ctx.mutex is free, the number of calls of
\* scheduler_submit_packet that enqueued their sample (and return ESP_OK)
\* is the number of samples in the four class queues plus packets_processed.
C32_SampleConservation ==
    mutex = "free" =>
        next_id - 1 = QueuedFrom(packet_queues, 0) + packets_processed

\* two samples were accepted; one was discarded as a deadline miss and
\* the other is in its queue
C32_Witness ==
    /\ mutex = "free"
    /\ next_id - 1 = 2
    /\ deadline_misses = 1
    /\ packets_processed = 1
    /\ QueuedFrom(packet_queues, 0) = 1

----------------------------------------------------------------------------
(* The header against the payload it announces *)

\* the payload bytes a header announces: per class, elements times width
RECURSIVE AnnouncedFrom(_, _)
AnnouncedFrom(header, class_id) ==
    IF class_id >= MAX_CLASSES THEN 0
    ELSE header.class_counts[class_id] * ElementSize(header.class_types[class_id])
         + AnnouncedFrom(header, class_id + 1)

\* C33: in every frame the station hands to the radio, header.total_size is
\* the sum over the classes of header.class_counts[c] times the width of
\* header.class_types[c].
C33_HeaderSelfConsistent ==
    last_frame.sent => last_frame.header.total_size = AnnouncedFrom(last_frame.header, 0)

----------------------------------------------------------------------------
(* Order of the deadlines within a queue *)

\* C34: in every state the deadlines of the samples of each class queue are
\* non-decreasing from head to tail, also when packet_creator_task and
\* random_packet_task submit to the same class.
C34_QueueDeadlinesOrdered ==
    \A c \in Classes : \A i, j \in DOMAIN packet_queues[c] :
        i < j => ~Gt32(packet_queues[c][i].deadline, packet_queues[c][j].deadline)


----------------------------------------------------------------------------
(* The control frame of the access point against its data frame *)

\* C37: in every tick of the access-point sender that emits a data frame, the
\* control frame sent before it announces for each class the element count
\* that the header of the data frame carries, and a tick whose control frame
\* is not sent dequeues no sample
C37_ControlMatchesData ==
    ap.pc # "unused" =>
        /\ ap.frame.sent => ap.frame.class_counts = ap.control
        /\ ~ap.control_sent => ap.dequeues = 0

\* a tick whose control frame is not sent dequeues no sample
NoDequeueWithoutControl ==
    ap.pc # "unused" /\ ~ap.control_sent => ap.dequeues = 0


----------------------------------------------------------------------------
(* The assembly buffer and the mutex in the three senders *)

\* the bytes the 4-class station has copied lie within its buffer
StationCopiesWithin ==
    \A i \in DOMAIN sched.data_buffer :
        sched.data_buffer[i].off + sched.data_buffer[i].len <= MAX_TX_SIZE

\* the bytes written before the last copy of the energy-aware station and
\* the sample copied lie within the allocated buffer
EaCopiesWithin ==
    ea.pc # "unused" => ea.remaining_space >= 0 /\ ea.remaining_space <= ea.buffer_size

\* the same for the access-point sender
ApCopiesWithin ==
    ap.pc # "unused" =>
        /\ ap.copy.written + ap.copy.size <= ap.buffer_size
        /\ ap.buffer_size <= MAX_TX_SIZE
        /\ ap.remaining_space <= ap.buffer_size

\* C36: in the three senders the bytes already written plus the size of the
\* sample do not exceed the allocated buffer at any copy of a sample into
\* the assembly buffer: 1400 bytes in the 4-class station, at most 1400 and
\* the sum of the head sizes of the earlier peek in the two others
C36_CopyWithinBuffer == StationCopiesWithin /\ EaCopiesWithin /\ ApCopiesWithin

\* each sender has copied into a buffer it has filled to the last byte, a
\* sample being left that did not fit
C36_Witness ==
    \/ /\ PartsUnused /\ sched.pc = "send" /\ sched.remaining_space < 800
       /\ \E c \in Classes : Len(packet_queues[c]) > 0
    \/ /\ ap.pc = "putback" /\ ap.copy.written + ap.copy.size = 800
    \/ /\ ea.pc = "putback" /\ ea.remaining_space = MAX_TX_SIZE - 800


\* the tasks that call into the schedulers of the three senders
Callers == Producers \cup {"producer", "main"}

\* the task is inside a call that takes the mutex
InCall(task) ==
    IF task \in Producers THEN PartsUnused /\ prod[task].pc = "enqueue"
    ELSE IF task = "producer" THEN ea.pc # "unused" /\ ea.producer.pc = "enqueue"
    ELSE ap.pc # "unused" /\ ap.main.pc \in {"enqueue", "stats"}

\* the scheduler task sleeps between two ticks
SchedulerSleeps ==
    IF ea.pc # "unused" THEN ea.pc = "idle"
    ELSE IF ap.pc # "unused" THEN ap.pc = "idle" ELSE sched.pc = "idle"

\* no task holds the mutex outside the functions that take it
NoLeakedLock ==
    /\ SchedulerSleeps => MutexHolder # "scheduler"
    /\ \A task \in Callers : MutexHolder = task => InCall(task)

\* C35: in the three senders every take of scheduler_ctx.mutex is followed by
\* a give before the function returns, so that the mutex is not held by the
\* scheduler task while it sleeps between ticks nor by a task outside its
\* call, and under fair scheduling every call of scheduler_submit_packet
\* returns
C35_NoLeakedLock ==
    /\ []NoLeakedLock
    /\ \A task \in Callers : InCall(task) ~> ~InCall(task)



----------------------------------------------------------------------------
(* The power the controller remembers against the power of the radio *)

\* C38: in every reachable state the power auto_tx_power_task compares
\* against, the wifi_tx_power of its configuration, is the power last
\* applied to the radio, whatever the connected-event handler has done on
\* its own configuration; so after each evaluation of the task with an RSSI
\* reading the power of the radio is the target for that RSSI
C38_StoredIsApplied ==
    /\ power.task_config = power.radio
    /\ power.last.by = "task" /\ power.last.ok =>
           power.radio = TargetPower(power.last.rssi, power.last.before)


----------------------------------------------------------------------------
(* The representation of a queue as a linked list *)

\* the addresses of the nodes reached from node by next, at most fuel of them
RECURSIVE NodesFrom(_, _, _)
NodesFrom(mem, node, fuel) ==
    IF node = NULL \/ fuel = 0 THEN <<>>
    ELSE <<node>> \o NodesFrom(mem, mem[node].next, fuel - 1)

\* C39: after any sequence of calls of queue_enqueue, queue_enqueue_front,
\* queue_dequeue and queue_peek on an initialised queue, head is NULL
\* exactly when count is 0 and exactly when tail is NULL, count is the
\* number of nodes reachable from head, these nodes are allocated, and
\* tail is the last of them and its next pointer is NULL
C39_ListRepresentation ==
    LET reached == NodesFrom(msgq.mem, msgq.head, MAX_QUEUE_SIZE + 2)
    IN  /\ (msgq.head = NULL) <=> (msgq.count = 0)
        /\ (msgq.tail = NULL) <=> (msgq.count = 0)
        /\ Len(reached) = msgq.count
        /\ \A i \in DOMAIN reached : msgq.mem[reached[i]].used
        /\ msgq.count > 0 =>
               /\ reached[Len(reached)] = msgq.tail
               /\ msgq.mem[msgq.tail].next = NULL

\* C39 case: a sample was put at the front of the empty queue, the next
\* call dequeued it, and the queue is empty again
C39_Witness ==
    /\ msgq_call.op = "dequeue" /\ msgq_call.ret
    /\ msgq_call.prev_op = "enqueue_front" /\ msgq_call.prev_ret
    /\ msgq.count = 0 /\ msgq.head = NULL /\ msgq.tail = NULL

============================================================================
